---- MODULE Spec2Model ----
(***************************************************************************)
(* Query and enrichment layer of mcp-beeper-texts                          *)
(* (src/src/mcp_beeper_texts/queries.py, server.py, db.py, models.py).     *)
(*                                                                         *)
(* Strings are sequences of tokens (a token is an indivisible piece of     *)
(* text, e.g. "a", "image/", "beeper://attachment/"); substring tests are  *)
(* contiguous-subsequence tests.  SQL NULL / Python None of a text column  *)
(* is the reserved string NULL, a missing JSON key is ABSENT, and a NULL   *)
(* integer column is NullInt.                                              *)
(***************************************************************************)
EXTENDS Integers, Sequences, FiniteSets, TLC

VARIABLES
    msgs,     \* table mx_room_messages of index.db, in rowid order
    threads,  \* table threads (LEFT JOIN breadcrumbs) of index.db
    env,      \* the archive on disk: root directory, index.db, platform stores, media
    call,     \* the tool call that produced ret
    ret       \* what the tool returned, and whether the query function raised

vars == <<msgs, threads, env, call, ret>>
storeVars == <<msgs, threads, env>>

--------------------------------------------------------------------------
(* Bounds of the model *)

MaxMsgs == 3
MaxLimit == 2

--------------------------------------------------------------------------
(* Values *)

NULL == <<"<NULL>">>
ABSENT == <<"<ABSENT>">>
NullInt == 0 - 1

Range(s) == {s[i] : i \in DOMAIN s}

Min(a, b) == IF a <= b THEN a ELSE b

Truthy(s) == s # NULL /\ s # ABSENT /\ s # <<>>

\* dict.get(key, default): the default is used only when the key is missing
Get(field, default) == IF field = ABSENT THEN default ELSE field

\* a or b
Or(a, b) == IF Truthy(a) THEN a ELSE b

StartsWith(s, p) == Len(s) >= Len(p) /\ SubSeq(s, 1, Len(p)) = p

EndsWith(s, p) == Len(s) >= Len(p) /\ SubSeq(s, Len(s) - Len(p) + 1, Len(s)) = p

\* Python: sub in s
Contains(s, sub) == \E i \in 0..(Len(s) - Len(sub)) : SubSeq(s, i + 1, i + Len(sub)) = sub

--------------------------------------------------------------------------
(* Integer <-> decimal string *)

Digits == <<"0", "1", "2", "3", "4", "5", "6", "7", "8", "9">>

DigitVal(t) == (CHOOSE i \in DOMAIN Digits : Digits[i] = t) - 1

RECURSIVE IntStr(_)
\* str(n), n >= 0
IntStr(n) == IF n < 10 THEN <<Digits[n + 1]>> ELSE IntStr(n \div 10) \o <<Digits[(n % 10) + 1]>>

IsInt(s) ==
    \/ s # <<>> /\ \A i \in DOMAIN s : s[i] \in Range(Digits)
    \/ Len(s) >= 2 /\ s[1] = "-" /\ \A i \in 2..Len(s) : s[i] \in Range(Digits)

RECURSIVE NatOf(_)
NatOf(s) == IF s = <<>> THEN 0 ELSE 10 * NatOf(SubSeq(s, 1, Len(s) - 1)) + DigitVal(s[Len(s)])

\* int(s) for a string that IsInt
IntOf(s) == IF s[1] = "-" THEN 0 - NatOf(Tail(s)) ELSE NatOf(s)

--------------------------------------------------------------------------
(* SQL helpers *)

RECURSIVE OrderBy(_, _)
\* ORDER BY key ASC over the rows ids: every order SQLite may produce (rows with
\* equal keys come in any order); NULL keys (NullInt) sort first.
OrderBy(ids, key) ==
    IF ids = {} THEN {<<>>}
    ELSE LET low == {x \in ids : \A y \in ids : key[x] <= key[y]}
         IN UNION {{<<x>> \o s : s \in OrderBy(ids \ {x}, key)} : x \in low}

OrderByDesc(ids, key) == OrderBy(ids, [x \in ids |-> 0 - key[x]])

\* LIMIT n: a negative n is no limit
SqlLimit(s, n) == IF n < 0 THEN s ELSE SubSeq(s, 1, Min(n, Len(s)))

Reverse(s) == [i \in 1..Len(s) |-> s[Len(s) + 1 - i]]

--------------------------------------------------------------------------
(* Message payloads (column mx_room_messages.message)                      *)
(*   kind   "null"  SQL NULL                                               *)
(*          "plain" text that does not start with { or [                   *)
(*          "bad"   starts with { or [ but is not valid JSON               *)
(*          "arr"   a JSON array                                           *)
(*          "scalar" a JSON number, string, true, false or null            *)
(*          "obj"   a JSON object, with the fields below                   *)
(*   raw    the stored string, for the kinds that are returned verbatim    *)
(*   attsKind "absent" | "null" | "other" (not a list) | "list"            *)
(*   atts   the attachments array: entries of kind "obj" | "null" | "str"  *)

MESSAGE_TYPES_RETURN == {"TEXT", "IMAGE", "VIDEO", "AUDIO", "FILE", "CONTACT"}

MESSAGE_TYPES_EXTENDED == MESSAGE_TYPES_RETURN \cup {"STICKER", "LOCATION"}

NoFields ==
    [text |-> ABSENT, body |-> ABSENT, xtype |-> ABSENT, url |-> ABSENT,
     filename |-> ABSENT, geo_uri |-> ABSENT, display_name |-> ABSENT,
     attsKind |-> "absent", atts |-> <<>>]

NullPayload == [kind |-> "null", raw |-> NULL] @@ NoFields

PlainPayload(s) == [kind |-> "plain", raw |-> s] @@ NoFields

BadJsonPayload == [kind |-> "bad", raw |-> <<"{", "oops">>] @@ NoFields

ArrayPayload == [kind |-> "arr", raw |-> <<"[", "]">>] @@ NoFields

ScalarPayload == [kind |-> "scalar", raw |-> <<"42">>] @@ NoFields

ObjPayload(fields) == fields @@ [kind |-> "obj", raw |-> <<"{", "}">>] @@ NoFields

\* json_extract(message, '$.<field>'): NULL for a NULL message, a missing key or a
\* JSON null.  (On a message that is not valid JSON, SQLite raises instead: see
\* JsonExtractRaises.)
JsonExtract(p, field) ==
    IF p.kind # "obj" \/ p[field] = ABSENT THEN NULL ELSE p[field]

JsonExtractRaises(p) == p.kind \in {"plain", "bad"}

UpperTok(t) ==
    CASE t = "text" -> "TEXT" [] t = "image" -> "IMAGE" [] t = "sticker" -> "STICKER"
      [] OTHER -> t

LowerTok(t) ==
    CASE t = "TEXT" -> "text" [] t = "IMAGE" -> "image" [] t = "VIDEO" -> "video"
      [] t = "AUDIO" -> "audio" [] t = "FILE" -> "file" [] t = "CONTACT" -> "contact"
      [] t = "STICKER" -> "sticker" [] t = "LOCATION" -> "location"
      [] t = "HIDDEN" -> "hidden" [] t = "Bob" -> "bob" [] t = "A" -> "a"
      [] t = "WhatsApp" -> "whatsapp" [] t = "Group" -> "group"
      [] OTHER -> t

Lower(s) == [i \in DOMAIN s |-> LowerTok(s[i])]

TitleTok(t) == CASE t = "IMAGE" -> "Image" [] t = "VIDEO" -> "Video" [] OTHER -> t

\* "not message_input": a NULL or empty payload
Empty(p) == p.kind = "null" \/ (p.kind # "obj" /\ p.raw = <<>>)

\* extract_message_text with TEXT reading text before body
extract_message_text_TextFirst(p, message_type) ==
    IF Empty(p) THEN <<>>
    ELSE LET upper_type == IF message_type = "" THEN "TEXT" ELSE UpperTok(message_type)
             placeholder == <<"[", upper_type, "]">>
         IN IF p.kind # "obj"
            THEN (IF upper_type = "TEXT" THEN p.raw ELSE Or(p.raw, placeholder))
            ELSE CASE upper_type = "TEXT" -> Get(p.text, Get(p.body, <<>>))
                   [] upper_type \in {"IMAGE", "VIDEO"} ->
                        Get(p.text, Get(p.body, <<"[", TitleTok(upper_type), "]">>))
                   [] upper_type = "AUDIO" ->
                        LET url == Get(p.url, <<>>)
                        IN IF Truthy(url) THEN <<"[Audio: ">> \o url \o <<"]">>
                           ELSE <<"[Audio message]">>
                   [] upper_type = "FILE" ->
                        LET filename == Get(p.filename, <<"file">>)
                            url == Get(p.url, <<>>)
                        IN IF Truthy(url)
                           THEN <<"[File: ">> \o filename \o <<" - ">> \o url \o <<"]">>
                           ELSE <<"[File: ">> \o filename \o <<"]">>
                   [] upper_type = "LOCATION" ->
                        LET geo == Get(p.geo_uri, <<>>)
                        IN IF Truthy(geo) THEN <<"[Location: ">> \o geo \o <<"]">>
                           ELSE <<"[Location]">>
                   [] upper_type = "CONTACT" ->
                        <<"[Contact: ">> \o Get(p.display_name, <<"Contact">>) \o <<"]">>
                   [] upper_type = "STICKER" ->
                        LET url == Get(p.url, <<>>)
                        IN IF Truthy(url) THEN <<"[Sticker: ">> \o url \o <<"]">>
                           ELSE <<"[Sticker]">>
                   [] OTHER -> Get(p.body, Get(p.text, placeholder))

\* extract_message_text(message_input, message_type); message_type is one token,
\* "" for None or the empty string
extract_message_text(p, message_type) ==
    IF Empty(p) THEN <<>>
    ELSE LET upper_type == IF message_type = "" THEN "TEXT" ELSE UpperTok(message_type)
             placeholder == <<"[", upper_type, "]">>
         IN IF p.kind # "obj"
            THEN (IF upper_type = "TEXT" THEN p.raw ELSE Or(p.raw, placeholder))
            ELSE CASE upper_type = "TEXT" -> Get(p.body, Get(p.text, <<>>))
                   [] upper_type \in {"IMAGE", "VIDEO"} ->
                        Get(p.text, Get(p.body, <<"[", TitleTok(upper_type), "]">>))
                   [] upper_type = "AUDIO" ->
                        LET url == Get(p.url, <<>>)
                        IN IF Truthy(url) THEN <<"[Audio: ">> \o url \o <<"]">>
                           ELSE <<"[Audio message]">>
                   [] upper_type = "FILE" ->
                        LET filename == Get(p.filename, <<"file">>)
                            url == Get(p.url, <<>>)
                        IN IF Truthy(url)
                           THEN <<"[File: ">> \o filename \o <<" - ">> \o url \o <<"]">>
                           ELSE <<"[File: ">> \o filename \o <<"]">>
                   [] upper_type = "LOCATION" ->
                        LET geo == Get(p.geo_uri, <<>>)
                        IN IF Truthy(geo) THEN <<"[Location: ">> \o geo \o <<"]">>
                           ELSE <<"[Location]">>
                   [] upper_type = "CONTACT" ->
                        <<"[Contact: ">> \o Get(p.display_name, <<"Contact">>) \o <<"]">>
                   [] upper_type = "STICKER" ->
                        LET url == Get(p.url, <<>>)
                        IN IF Truthy(url) THEN <<"[Sticker: ">> \o url \o <<"]">>
                           ELSE <<"[Sticker]">>
                   [] OTHER -> Get(p.body, Get(p.text, placeholder))

--------------------------------------------------------------------------
(* Attachments *)

AttachmentPrefix == <<"beeper://attachment/">>

DefaultMime == <<"application/", "octet-stream">>

\* infer_type(mime) and the same expression in get_media_attachment_content
infer_type(mime) ==
    LET m == Or(mime, DefaultMime)
    IN IF m[1] \in {"image/", "audio/", "video/"}
       THEN <<SubSeq(<<"image", "audio", "video">>,
                     CHOOSE k \in 1..3 : <<"image/", "audio/", "video/">>[k] = m[1],
                     CHOOSE k \in 1..3 : <<"image/", "audio/", "video/">>[k] = m[1])[1]>>
       ELSE <<"file">>

\* (att or {}).get("mimeType") or (att or {}).get("mimetype")
AttMime(att) == Or(Get(att.mimeType, NULL), Get(att.mimetype, NULL))

BuildUri(message_id, i) == AttachmentPrefix \o message_id \o <<"/">> \o IntStr(i)

\* extract_message_attachments numbering the descriptors by their place in the
\* result instead of the place of the entry in the array
extract_message_attachments_Renumbered(p, message_id) ==
    IF Empty(p) \/ p.kind \in {"plain", "bad"} THEN [raised |-> FALSE, atts |-> <<>>]
    ELSE IF p.kind \in {"arr", "scalar"} THEN [raised |-> TRUE, atts |-> <<>>]
    ELSE IF p.attsKind # "list" THEN [raised |-> FALSE, atts |-> <<>>]
    ELSE LET objs == {i \in DOMAIN p.atts : p.atts[i].kind = "obj"}
             order == CHOOSE s \in OrderBy(objs, [i \in objs |-> i]) : TRUE
         IN [raised |-> FALSE,
             atts |-> [k \in DOMAIN order |->
                         LET att == p.atts[order[k]]
                         IN [uri |-> BuildUri(message_id, k - 1),
                             type |-> infer_type(AttMime(att)),
                             mime_type |-> Or(AttMime(att), DefaultMime),
                             index |-> order[k] - 1]]]

\* extract_message_attachments(message_json, message_id):
\* [raised, atts]; a payload that is valid JSON and not an object makes data.get
\* raise AttributeError
extract_message_attachments(p, message_id) ==
    IF Empty(p) \/ p.kind \in {"plain", "bad"} THEN [raised |-> FALSE, atts |-> <<>>]
    ELSE IF p.kind \in {"arr", "scalar"} THEN [raised |-> TRUE, atts |-> <<>>]
    ELSE IF p.attsKind # "list" THEN [raised |-> FALSE, atts |-> <<>>]
    ELSE LET objs == {i \in DOMAIN p.atts : p.atts[i].kind = "obj"}
             \* the list comprehension keeps array order
             order == CHOOSE s \in OrderBy(objs, [i \in objs |-> i]) : TRUE
         IN [raised |-> FALSE,
             atts |-> [k \in DOMAIN order |->
                         LET i == order[k]
                             att == p.atts[i]
                         IN [uri |-> BuildUri(message_id, i - 1),
                             type |-> infer_type(AttMime(att)),
                             mime_type |-> Or(AttMime(att), DefaultMime),
                             index |-> i - 1]]]

--------------------------------------------------------------------------
(* Contacts and messages *)

ThreadRows(chat_id) == {i \in DOMAIN threads : threads[i].id = chat_id}

Me == <<"Me">>

\* get_contact_name(sender_id, room_id, is_from_me, index_conn)
get_contact_name(sender_id, room_id, is_from_me) ==
    IF is_from_me THEN Me
    ELSE IF ThreadRows(room_id) = {} THEN sender_id
    ELSE LET t == threads[CHOOSE i \in ThreadRows(room_id) : TRUE]
             hits == {k \in DOMAIN t.participants : t.participants[k].id = sender_id}
         IN IF hits = {} THEN sender_id
            ELSE LET first == CHOOSE k \in hits : \A j \in hits : k <= j
                 IN Get(t.participants[first].fullName, sender_id)

\* nanoseconds_to_iso(timestamp_ns) for the magnitudes the model stores
\* (below 10^15): a value above 10^12 is milliseconds, any other is seconds.
\* The ISO string is the pair (whole seconds, milliseconds).
nanoseconds_to_iso(ts) ==
    IF (ts \div 1000000) > 1000000 \/ ((ts \div 1000000) = 1000000 /\ ts % 1000000 > 0)
    THEN [s |-> ts \div 1000, ms |-> ts % 1000]
    ELSE [s |-> ts, ms |-> 0]

\* int(datetime.fromisoformat(iso).timestamp() * 1_000)
IsoToMs(iso) == iso.s * 1000 + iso.ms

\* _build_message_from_row(row, chat_id, index_conn, message_col, type_col);
\* src is the rowid the message was built from (not a field of Message)
build_message_from_row(row, chat_id, src) ==
    [sender_name |-> get_contact_name(row.sender_id, chat_id, row.is_from_me),
     text |-> extract_message_text(row.message, row.mtype),
     timestamp |-> nanoseconds_to_iso(row.timestamp),
     message_type |-> LowerTok(row.mtype),
     in_reply_to |-> row.in_reply_to,
     attachments |->
        IF row.has_event /\ ~Empty(row.message)
        THEN LET message_id == IF Truthy(row.eventID) THEN row.eventID
                               ELSE <<"msg_">> \o IntStr(row.timestamp)
             IN extract_message_attachments(row.message, message_id).atts
        ELSE <<>>,
     src |-> src]

\* Message(...) fails validation for a None sender_name or text, and
\* nanoseconds_to_iso(None) raises TypeError
BuildRaises(row, chat_id) ==
    \/ row.timestamp = NullInt
    \/ get_contact_name(row.sender_id, chat_id, row.is_from_me) = NULL
    \/ extract_message_text(row.message, row.mtype) = NULL

\* a row of mx_room_messages under the column aliases of the message queries
RowView(i) ==
    [sender_id |-> msgs[i].sender, message |-> msgs[i].payload,
     timestamp |-> msgs[i].ts, is_from_me |-> msgs[i].isMe, mtype |-> msgs[i].type,
     in_reply_to |-> msgs[i].inReplyTo, has_event |-> TRUE, eventID |-> msgs[i].eventID]

\* what a function or a tool hands back: raised says an exception was raised
\* inside, thrown that it left the function or tool, value is what was returned
Raised == [raised |-> TRUE, thrown |-> TRUE, value |-> <<>>]
Returned(v) == [raised |-> FALSE, thrown |-> FALSE, value |-> v]

\* the messages built from the rows ids (a sequence of rowids), in that order
BuildAll(ids) ==
    IF \E k \in DOMAIN ids : BuildRaises(RowView(ids[k]), msgs[ids[k]].room)
    THEN Raised
    ELSE Returned([k \in DOMAIN ids |->
                     build_message_from_row(RowView(ids[k]), msgs[ids[k]].room, ids[k])])

TsKey(ids) == [i \in ids |-> msgs[i].ts]

--------------------------------------------------------------------------
(* fetch_messages *)

NoDate == [kind |-> "none", ms |-> 0]
BadDate == [kind |-> "bad", ms |-> 0]
IsoDate(ms) == [kind |-> "iso", ms |-> ms]

\* datetime.fromisoformat(date_param.replace("Z", "+00:00")) followed by
\* int(dt.timestamp() * 1_000), for a string that names the instant us (in
\* microseconds): the instant cut to whole milliseconds.  (The floating-point
\* product is exact for instants from 2004-11-03 to 2038-01-19; the times of the
\* model are offsets within that range.)
IsoMicros(us) == IsoDate(us \div 1000)

\* FetchRows with inclusive date comparisons
FetchRows_Inclusive(chat_id, before, after) ==
    {i \in DOMAIN msgs :
        /\ msgs[i].room = chat_id
        /\ msgs[i].type \in MESSAGE_TYPES_RETURN
        /\ msgs[i].payload.kind # "null"
        /\ after.kind = "iso" => (msgs[i].ts # NullInt /\ msgs[i].ts >= after.ms)
        /\ before.kind = "iso" => (msgs[i].ts # NullInt /\ msgs[i].ts <= before.ms)}

\* FetchRows without the type IN (...) condition
FetchRows_AnyType(chat_id, before, after) ==
    {i \in DOMAIN msgs :
        /\ msgs[i].room = chat_id
        /\ msgs[i].payload.kind # "null"
        /\ after.kind = "iso" => (msgs[i].ts # NullInt /\ msgs[i].ts > after.ms)
        /\ before.kind = "iso" => (msgs[i].ts # NullInt /\ msgs[i].ts < before.ms)}

\* the WHERE clause of fetch_messages; a date that is None, empty or not ISO-8601
\* adds no condition; a NULL timestamp fails every comparison
FetchRows(chat_id, before, after) ==
    {i \in DOMAIN msgs :
        /\ msgs[i].room = chat_id
        /\ msgs[i].type \in MESSAGE_TYPES_RETURN
        /\ msgs[i].payload.kind # "null"
        /\ after.kind = "iso" => (msgs[i].ts # NullInt /\ msgs[i].ts > after.ms)
        /\ before.kind = "iso" => (msgs[i].ts # NullInt /\ msgs[i].ts < before.ms)}

\* fetch_messages(index_conn, platform_dbs, chat_id, limit, before, after):
\* the set of outcomes
fetch_messages(chat_id, limit, before, after) ==
    LET rows == FetchRows(chat_id, before, after)
    IN {BuildAll(SqlLimit(s, limit)) : s \in OrderByDesc(rows, TsKey(rows))}

\* get_platform_db_paths() and get_db_connection("index.db") raise FileNotFoundError
\* when the archive root or index.db is missing
StoreMissing == ~env.root \/ ~env.index

NoCall == [op |-> "none"]

\* tools run one at a time: a call starts when no response is pending
Idle == call = NoCall

\* the response is handed to the caller; nothing of it is kept
Respond ==
    /\ ~Idle
    /\ call' = NoCall
    /\ ret' = Returned(<<>>)
    /\ UNCHANGED storeVars

\* except Exception as e: logging.error(...); return []
Caught == [raised |-> TRUE, thrown |-> FALSE, value |-> <<>>]

\* a list tool without its try/except
ListTool_Unguarded(outcomes) == IF StoreMissing THEN {Raised} ELSE outcomes

\* the connections to index.db of one operation: how many it opened and how many
\* of them are still open when it returns
Connections(opened, open) == [opened |-> opened, open |-> open]

\* async with get_db_connection("index.db"): nothing is opened when the root or
\* the file is missing, else one connection that the finally clause closes
IndexConnection == IF StoreMissing THEN Connections(0, 0) ELSE Connections(1, 0)

\* a list tool: try: ... return result / except Exception: return []
ListTool(outcomes) ==
    IF StoreMissing THEN {Caught @@ IndexConnection}
    ELSE {(IF o.raised THEN Caught ELSE o) @@ IndexConnection : o \in outcomes}

\* server.get_messages
get_messages(chat_id, limit, before, after) ==
    /\ Idle
    /\ call' = [op |-> "get_messages", chat_id |-> chat_id, limit |-> limit,
                before |-> before, after |-> after]
    /\ ret' \in ListTool(fetch_messages(chat_id, limit, before, after))
    /\ UNCHANGED storeVars

--------------------------------------------------------------------------
(* Chats *)

PlatformKeys ==
    <<"whatsapp", "telegram", "signal", "linkedin", "discord", "slack", "facebook",
      "instagram", "imessage", "twitter">>

PlatformNames ==
    <<"WhatsApp", "Telegram", "Signal", "LinkedIn", "Discord", "Slack", "Facebook",
      "Instagram", "iMessage", "Twitter">>

\* resolve_platform_from_room_id(room_id)
resolve_platform_from_room_id(room_id) ==
    LET hits == {k \in DOMAIN PlatformKeys : Contains(Lower(room_id), <<PlatformKeys[k]>>)}
    IN IF hits # {} THEN <<PlatformNames[CHOOSE k \in hits : \A j \in hits : k <= j]>>
       ELSE IF Contains(room_id, <<"beeper.local">>) THEN <<"Beeper">>
       ELSE <<"Unknown">>

PlatformLower(chat_id) ==
    LET name == resolve_platform_from_room_id(chat_id)[1]
    IN IF \E k \in DOMAIN PlatformNames : PlatformNames[k] = name
       THEN PlatformKeys[CHOOSE k \in DOMAIN PlatformNames : PlatformNames[k] = name]
       ELSE IF name = "Beeper" THEN "beeper" ELSE "unknown"

\* the first row of a table (a sequence) that satisfies a condition, 0 if none
FirstOf(hits) == IF hits = {} THEN 0 ELSE CHOOSE k \in hits : \A j \in hits : k <= j

\* the name one platform store gives chat_id: the ghost name of the portal's other user
GhostName(db, chat_id) ==
    LET p == FirstOf({k \in DOMAIN db.portal :
                        db.portal[k].mxid = chat_id /\ db.portal[k].other_user_id # NULL})
        g == IF p = 0 THEN 0
             ELSE FirstOf({k \in DOMAIN db.ghost :
                             /\ db.ghost[k].id = db.portal[p].other_user_id
                             /\ db.ghost[k].name # NULL /\ db.ghost[k].name # <<>>})
    IN IF g = 0 THEN NULL ELSE db.ghost[g].name

\* get_chat_name(thread_title, chat_id, platform_dbs): a store that fails to open or
\* to answer (sqlite3.Error) is skipped
get_chat_name(thread_title, chat_id) ==
    IF Truthy(thread_title) THEN thread_title
    ELSE LET named == {k \in DOMAIN env.platforms :
                          /\ Contains(env.platforms[k].dir, <<PlatformLower(chat_id)>>)
                          /\ ~env.platforms[k].broken
                          /\ GhostName(env.platforms[k], chat_id) # NULL}
         IN IF named # {} THEN GhostName(env.platforms[FirstOf(named)], chat_id)
            ELSE IF chat_id # <<>> /\ chat_id[1] = "!" /\ Contains(chat_id, <<":">>)
                 THEN LET colon == FirstOf({k \in DOMAIN chat_id : chat_id[k] = ":"})
                      IN SubSeq(chat_id, 2, colon - 1)
                 ELSE chat_id

\* _build_chat_from_id(chat_id, platform_dbs, index_conn, last_activity)
build_chat_from_id(chat_id, last_activity) ==
    LET rows == ThreadRows(chat_id)
        thread_title == IF rows = {} THEN NULL ELSE threads[CHOOSE i \in rows : TRUE].title
    IN [chat_id |-> chat_id,
        name |-> get_chat_name(thread_title, chat_id),
        platform |-> resolve_platform_from_room_id(chat_id),
        unread |-> FALSE,
        last_activity |-> last_activity,
        total_messages |-> Cardinality({i \in DOMAIN msgs :
                              msgs[i].room = chat_id /\ msgs[i].type \in MESSAGE_TYPES_EXTENDED}),
        participants |-> <<>>,
        recent_messages |-> <<>>]

--------------------------------------------------------------------------
(* search_messages *)

ContextWindow == 3600000
SearchContextLimit == 10
DefaultContextLimit == 20

RECURSIVE Like(_, _)
\* text LIKE pat: % matches any run of characters, _ any one character, and letters
\* match without regard to case
Like(text, pat) ==
    IF pat = <<>> THEN text = <<>>
    ELSE IF pat[1] = "%"
         THEN Like(text, Tail(pat)) \/ (text # <<>> /\ Like(Tail(text), pat))
    ELSE IF pat[1] = "_" THEN text # <<>> /\ Like(Tail(text), Tail(pat))
    ELSE text # <<>> /\ LowerTok(text[1]) = LowerTok(pat[1]) /\ Like(Tail(text), Tail(pat))

\* the rows _get_context_messages selects, before ORDER BY and LIMIT,
\* without the condition on the type
ContextRows_AnyType(chat_id, timestamp, context_window) ==
    {i \in DOMAIN msgs :
        /\ msgs[i].room = chat_id
        /\ msgs[i].payload.kind # "null"
        /\ msgs[i].ts # NullInt
        /\ timestamp - context_window <= msgs[i].ts
        /\ msgs[i].ts <= timestamp + context_window}

\* the rows _get_context_messages selects, before ORDER BY and LIMIT
ContextRows(chat_id, timestamp, context_window) ==
    {i \in DOMAIN msgs :
        /\ msgs[i].room = chat_id
        /\ msgs[i].type \in MESSAGE_TYPES_RETURN
        /\ msgs[i].payload.kind # "null"
        /\ msgs[i].ts # NullInt
        /\ timestamp - context_window <= msgs[i].ts
        /\ msgs[i].ts <= timestamp + context_window}

\* _get_context_messages(chat_id, timestamp, index_conn, context_window, limit):
\* the set of outcomes
get_context_messages(chat_id, timestamp, context_window, limit) ==
    LET rows == ContextRows(chat_id, timestamp, context_window)
    IN {BuildAll(SqlLimit(s, limit)) : s \in OrderBy(rows, TsKey(rows))}

\* the other conditions of the search WHERE clause
SearchScope(i, chat_id) ==
    /\ msgs[i].type \in MESSAGE_TYPES_RETURN
    /\ Truthy(chat_id) => msgs[i].room = chat_id

\* the rows the search query selects, before ORDER BY and LIMIT
SearchRows(query, chat_id) ==
    {i \in DOMAIN msgs :
        /\ ~JsonExtractRaises(msgs[i].payload)
        /\ JsonExtract(msgs[i].payload, "text") # NULL
        /\ Like(JsonExtract(msgs[i].payload, "text"), <<"%">> \o query \o <<"%">>)
        /\ SearchScope(i, chat_id)}

\* "user" or an id with "@" and "beeper.com" in it
LooksLikeMe(sender_id) ==
    sender_id = <<"user">> \/ (Contains(sender_id, <<"@">>) /\ Contains(sender_id, <<"beeper.com">>))

\* the dict search_messages builds for the matched row
MatchRow(i) ==
    LET xtype == JsonExtract(msgs[i].payload, "xtype")
    IN [sender_id |-> msgs[i].sender,
        message |-> PlainPayload(JsonExtract(msgs[i].payload, "text")),
        timestamp |-> msgs[i].ts,
        is_from_me |-> LooksLikeMe(msgs[i].sender),
        mtype |-> IF Truthy(xtype) THEN xtype[1] ELSE "TEXT",
        in_reply_to |-> NULL, has_event |-> FALSE, eventID |-> NULL]

\* one ChatSearchResult; match is the matched message (not a field of the result)
SearchResult(message, messages) ==
    [chat |-> build_chat_from_id(msgs[message.src].room, message.timestamp),
     messages |-> messages, match |-> message]

\* the loop body of search_messages for the matched row i: the set of outcomes
MatchOutcomes(i, include_context) ==
    IF msgs[i].sender = NULL \/ BuildRaises(MatchRow(i), msgs[i].room) THEN {Raised}
    ELSE LET message == build_message_from_row(MatchRow(i), msgs[i].room, i)
         IN IF ~include_context THEN {Returned(SearchResult(message, <<message>>))}
            ELSE {IF c.raised THEN Raised
                  ELSE Returned(SearchResult(message,
                                   IF c.value # <<>> THEN c.value ELSE <<message>>)) :
                  c \in get_context_messages(msgs[i].room, msgs[i].ts, ContextWindow,
                                             SearchContextLimit)}

RECURSIVE SearchLoop(_, _)
\* the loop of search_messages over the matched rows ids: the set of outcomes
SearchLoop(ids, include_context) ==
    IF ids = <<>> THEN {Returned(<<>>)}
    ELSE UNION {IF h.raised THEN {Raised}
                ELSE {IF t.raised THEN Raised ELSE Returned(<<h.value>> \o t.value) :
                      t \in SearchLoop(Tail(ids), include_context)} :
                h \in MatchOutcomes(Head(ids), include_context)}

\* search_messages(index_conn, platform_dbs, query, chat_id, limit, include_context):
\* the set of outcomes.  json_extract raises on a stored message that is not valid
\* JSON; SQLite may test the other conditions of the WHERE clause first, so such a
\* row certainly fails the query only when it meets them.
search_messages(query, chat_id, limit, include_context) ==
    LET rows == SearchRows(query, chat_id)
        bad == {i \in DOMAIN msgs : JsonExtractRaises(msgs[i].payload)}
    IN (IF bad # {} THEN {Raised} ELSE {})
       \cup (IF \E i \in bad : SearchScope(i, chat_id) THEN {}
             ELSE UNION {SearchLoop(SqlLimit(s, limit), include_context) :
                         s \in OrderByDesc(rows, TsKey(rows))})

\* server.search_message_contents
search_message_contents(query, chat_id, limit, include_context) ==
    /\ Idle
    /\ call' = [op |-> "search_message_contents", query |-> query, chat_id |-> chat_id,
                limit |-> limit, include_context |-> include_context]
    /\ ret' \in ListTool(search_messages(query, chat_id, limit, include_context))
    /\ UNCHANGED storeVars

--------------------------------------------------------------------------
(* get_messages_by_person *)

MsPerDay == 86400000

\* step 1: the sender ids whose resolved name, in some chat, contains person_name;
\* [raised, ids]: a None name (a participant whose fullName is null) has no lower()
MatchingSenders(person_name) ==
    LET pairs == {<<msgs[i].sender, msgs[i].room>> : i \in
                    {j \in DOMAIN msgs : /\ msgs[j].sender # NULL
                                         /\ msgs[j].sender # <<"user">>
                                         /\ msgs[j].type \in MESSAGE_TYPES_EXTENDED}}
    IN [raised |-> \E pr \in pairs : get_contact_name(pr[1], pr[2], FALSE) = NULL,
        ids |-> {pr[1] : pr \in {q \in pairs :
                    /\ get_contact_name(q[1], q[2], FALSE) # NULL
                    /\ Contains(Lower(get_contact_name(q[1], q[2], FALSE)),
                                Lower(person_name))}}]

\* step 2: the WHERE clause of the messages query
PersonRows(sender_ids, platform, days_back) ==
    {i \in DOMAIN msgs :
        /\ msgs[i].sender \in sender_ids
        /\ msgs[i].type \in MESSAGE_TYPES_EXTENDED
        /\ Truthy(platform) => Like(msgs[i].room, <<"%">> \o Lower(platform) \o <<"%">>)
        /\ days_back > 0 => (msgs[i].ts # NullInt /\ msgs[i].ts > env.now - days_back * MsPerDay)}

\* "group" in chat_id.lower() or "@g.us" in chat_id
LooksLikeGroup(chat_id) ==
    Contains(Lower(chat_id), <<"group">>) \/ Contains(chat_id, <<"@g.us">>)

\* the chat_type filter of step 3; chat_type is "" for None
SkippedByChatType(chat_id, chat_type) ==
    \/ chat_type = "dm" /\ LooksLikeGroup(chat_id)
    \/ chat_type = "group" /\ ~LooksLikeGroup(chat_id)

\* chat_messages[chat_id].append(message); the dict keeps insertion order
Grouped(acc, chat_id, message) ==
    IF \E k \in DOMAIN acc : acc[k].chat_id = chat_id
    THEN [k \in DOMAIN acc |->
            IF acc[k].chat_id = chat_id
            THEN [acc[k] EXCEPT !.messages = Append(@, message)] ELSE acc[k]]
    ELSE Append(acc, [chat_id |-> chat_id, messages |-> <<message>>])

GroupLen(acc, chat_id) ==
    Len(acc[CHOOSE k \in DOMAIN acc : acc[k].chat_id = chat_id].messages)

RECURSIVE GroupLoop(_, _, _, _)
\* the loop of step 3 over the rows ids, newest first: the break leaves the whole
\* loop as soon as one chat holds limit messages
GroupLoop(ids, acc, chat_type, limit) ==
    IF ids = <<>> THEN Returned(acc)
    ELSE LET i == Head(ids)
             chat_id == msgs[i].room
         IN IF SkippedByChatType(chat_id, chat_type)
            THEN GroupLoop(Tail(ids), acc, chat_type, limit)
            ELSE IF BuildRaises(RowView(i), chat_id) THEN Raised
            ELSE LET acc2 == Grouped(acc, chat_id,
                                build_message_from_row(RowView(i), chat_id, i))
                 IN IF GroupLen(acc2, chat_id) >= limit THEN Returned(acc2)
                    ELSE GroupLoop(Tail(ids), acc2, chat_type, limit)

\* step 4 for one chat: the set of outcomes
PersonResult(group, include_context) ==
    LET first == group.messages[1]
        chat == build_chat_from_id(group.chat_id, first.timestamp)
    IN IF ~include_context
       THEN {Returned([chat |-> chat, messages |-> group.messages, match |-> first])}
       ELSE {IF c.raised THEN Raised
             ELSE Returned([chat |-> chat,
                            messages |-> IF c.value # <<>> THEN c.value ELSE group.messages,
                            match |-> first]) :
             c \in get_context_messages(group.chat_id, IsoToMs(first.timestamp),
                                        ContextWindow, DefaultContextLimit)}

RECURSIVE PersonResults(_, _)
PersonResults(groups, include_context) ==
    IF groups = <<>> THEN {Returned(<<>>)}
    ELSE UNION {IF h.raised THEN {Raised}
                ELSE {IF t.raised THEN Raised ELSE Returned(<<h.value>> \o t.value) :
                      t \in PersonResults(Tail(groups), include_context)} :
                h \in PersonResult(Head(groups), include_context)}

\* get_messages_by_person(index_conn, platform_dbs, person_name, limit, platform,
\* chat_type, days_back, include_context): the set of outcomes; days_back is 0 for
\* None.  The query selects json_extract(message, '$.text'), which raises on a
\* selected row whose message is not valid JSON.
get_messages_by_person(person_name, limit, platform, chat_type, days_back, include_context) ==
    LET senders == MatchingSenders(person_name)
        rows == PersonRows(senders.ids, platform, days_back)
    IN IF senders.raised THEN {Raised}
       ELSE IF senders.ids = {} THEN {Returned(<<>>)}
       ELSE IF \E i \in rows : JsonExtractRaises(msgs[i].payload) THEN {Raised}
       ELSE UNION {LET groups == GroupLoop(s, <<>>, chat_type, limit)
                   IN IF groups.raised THEN {Raised}
                      ELSE PersonResults(groups.value, include_context) :
                   s \in OrderByDesc(rows, TsKey(rows))}

\* server.get_person_messages
get_person_messages(person_name, limit, platform, chat_type, days_back, include_context) ==
    /\ Idle
    /\ call' = [op |-> "get_person_messages", person_name |-> person_name, limit |-> limit,
                platform |-> platform, chat_type |-> chat_type, days_back |-> days_back,
                include_context |-> include_context]
    /\ ret' \in ListTool(get_messages_by_person(person_name, limit, platform, chat_type,
                                                 days_back, include_context))
    /\ UNCHANGED storeVars

--------------------------------------------------------------------------
(* fetch_chats: thread rows are named by their position in threads.         *)
(* tags is the JSON text of $.extra.tags (NULL when the field is missing).  *)

Labels == {"inbox", "archive", "all", "favourite", "unread"}

\* chat_id.endswith((":beeper.local", ":beeper.com"))
IsSystemChat(chat_id) ==
    EndsWith(chat_id, <<":", "beeper.local">>) \/ EndsWith(chat_id, <<":", "beeper.com">>)

\* row["tags"] and "favourite" in row["tags"]
IsFavorited(tags) == Truthy(tags) /\ Contains(tags, <<"favourite">>)

Max(S) == CHOOSE x \in S : \A y \in S : y <= x

\* the MAX(hsOrder) of the chat reading the HIDDEN messages too
LatestHsOrder_WithHidden(chat_id) ==
    LET orders == {msgs[i].hsOrder : i \in {j \in DOMAIN msgs :
                      msgs[j].room = chat_id /\ msgs[j].hsOrder # NullInt}}
    IN IF orders = {} THEN NullInt ELSE Max(orders)

\* SELECT MAX(hsOrder) FROM mx_room_messages WHERE roomID = ? AND type != 'HIDDEN'
LatestHsOrder(chat_id) ==
    LET orders == {msgs[i].hsOrder : i \in {j \in DOMAIN msgs :
                      /\ msgs[j].room = chat_id
                      /\ msgs[j].type # "HIDDEN"
                      /\ msgs[j].hsOrder # NullInt}}
    IN IF orders = {} THEN NullInt ELSE Max(orders)

\* the loop body of apply_inbox_filters without the favourite shortcut
InboxKeeps_NoFavourite(i) ==
    LET row == threads[i]
    IN IF IsSystemChat(row.id) THEN FALSE
       ELSE IF row.isArchivedUpto = NullInt THEN TRUE
       ELSE IF row.archivedUpToOrder = NullInt THEN TRUE
       ELSE IF LatestHsOrder(row.id) = NullInt THEN FALSE
       ELSE LatestHsOrder(row.id) > row.archivedUpToOrder

\* the loop body of apply_inbox_filters testing the favourite tag before the
\* system suffix
InboxKeeps_FavouriteFirst(i) ==
    LET row == threads[i]
    IN IF IsFavorited(row.tags) THEN TRUE
       ELSE IF IsSystemChat(row.id) THEN FALSE
       ELSE IF row.isArchivedUpto = NullInt THEN TRUE
       ELSE IF row.archivedUpToOrder = NullInt THEN TRUE
       ELSE IF LatestHsOrder(row.id) = NullInt THEN FALSE
       ELSE LatestHsOrder(row.id) > row.archivedUpToOrder

\* the loop body of apply_inbox_filters: is the row appended to filtered_rows
InboxKeeps(i) ==
    LET row == threads[i]
    IN IF IsSystemChat(row.id) THEN FALSE
       ELSE IF IsFavorited(row.tags) THEN TRUE
       ELSE IF row.isArchivedUpto = NullInt THEN TRUE
       ELSE IF row.archivedUpToOrder = NullInt THEN TRUE
       ELSE IF LatestHsOrder(row.id) = NullInt THEN FALSE
       ELSE LatestHsOrder(row.id) > row.archivedUpToOrder

\* apply_inbox_filters(rows, index_conn, platform_dbs)
apply_inbox_filters(rows) == SelectSeq(rows, InboxKeeps)

\* check_community(chat_id, platform_dbs): only the first store whose directory
\* name holds "whatsapp" is asked
check_community(chat_id) ==
    LET wa == FirstOf({k \in DOMAIN env.platforms :
                          Contains(env.platforms[k].dir, <<"whatsapp">>)})
        db == env.platforms[wa]
        p == FirstOf({k \in DOMAIN db.portal : db.portal[k].mxid = chat_id})
    IN /\ wa # 0
       /\ ~db.broken
       /\ p # 0
       /\ (db.portal[p].room_type = <<"space">> \/ db.portal[p].parent_id # NULL)

\* tags [NOT] LIKE '%favourite%': LIKE ignores the case of ASCII letters
TagsLikeFavourite(tags) == Contains(Lower(tags), <<"favourite">>)

\* the WHERE clause of the base query
ChatConditions(i, label, include_low_priority) ==
    LET t == threads[i]
    IN CASE label = "inbox" -> t.isLowPriority = 0
         [] label = "archive" ->
               /\ t.isArchivedUpto # NullInt
               /\ t.tags # NULL /\ ~TagsLikeFavourite(t.tags)
               /\ ~include_low_priority => t.isLowPriority = 0
         [] label = "favourite" ->
               /\ t.tags # NULL /\ TagsLikeFavourite(t.tags)
               /\ ~include_low_priority => t.isLowPriority = 0
         [] label \in {"all", "unread"} -> ~include_low_priority => t.isLowPriority = 0
         [] OTHER -> TRUE

\* (SELECT MAX(timestamp) ... type IN MESSAGE_TYPES_RETURN) as last_message_time
last_message_time(chat_id) ==
    LET times == {msgs[i].ts : i \in {j \in DOMAIN msgs :
                     /\ msgs[j].room = chat_id
                     /\ msgs[j].type \in MESSAGE_TYPES_RETURN
                     /\ msgs[j].ts # NullInt}}
    IN IF times = {} THEN NullInt ELSE Max(times)

\* BINARY collation of the thread titles, NULL first
Collation == <<NULL, <<"Al">>, <<"Team">>, <<"Zed">>>>

TitleRank(title) == FirstOf({k \in DOMAIN Collation : Collation[k] = title})

\* the ORDER BY clause: the sort key of each row and whether it is descending
SortKey(rows, sort_by) ==
    [i \in rows |->
        CASE sort_by = "last_active" -> 0 - threads[i].lastOpenTime
          [] sort_by = "name" -> TitleRank(threads[i].title)
          [] OTHER ->
               0 - (IF last_message_time(threads[i].id) # NullInt
                    THEN last_message_time(threads[i].id)
                    ELSE IF threads[i].lastOpenTime # NullInt THEN threads[i].lastOpenTime
                    ELSE 0)]

\* thread_type == "group" if thread_type else ("@g.us" in chat_id or "group" in ...)
IsGroup(i) ==
    IF threads[i].ttype # "" THEN threads[i].ttype = "group" ELSE LooksLikeGroup(threads[i].id)

\* "Skip WhatsApp communities in inbox"
SkippedCommunity(i, label) ==
    /\ label = "inbox"
    /\ IsGroup(i)
    /\ PlatformLower(threads[i].id) = "whatsapp"
    /\ check_community(threads[i].id)

PreviewLen == 100

\* Truncate without the "..." marker
Truncate_NoMarker(message) ==
    IF Len(message.text) > PreviewLen
    THEN [message EXCEPT !.text = SubSeq(message.text, 1, PreviewLen)]
    ELSE message

\* "Truncate for preview": len(message.text) > 100; a token of a text stands for
\* one character
Truncate(message) ==
    IF Len(message.text) > PreviewLen
    THEN [message EXCEPT !.text = SubSeq(message.text, 1, PreviewLen) \o <<"...">>]
    ELSE message

\* the rows of the "Get recent messages" query
RecentRows(chat_id) ==
    {i \in DOMAIN msgs :
        /\ msgs[i].room = chat_id
        /\ msgs[i].type \in MESSAGE_TYPES_RETURN
        /\ msgs[i].payload # NullPayload}

\* recent_messages of one chat: the set of outcomes
RecentMessages(chat_id, recent_messages_limit) ==
    IF recent_messages_limit > 0
    THEN LET rows == RecentRows(chat_id)
         IN {LET built == BuildAll(Reverse(SqlLimit(s, recent_messages_limit)))
             IN IF built.raised THEN Raised
                ELSE Returned([k \in DOMAIN built.value |-> Truncate(built.value[k])]) :
             s \in OrderByDesc(rows, TsKey(rows))}
    ELSE {Returned(<<>>)}

\* participants of one chat, most active first: the set of the lists the
\* GROUP BY ... ORDER BY message_count DESC LIMIT ? query can give
Participants(i, max_participants) ==
    LET chat_id == threads[i].id
        rows == {j \in DOMAIN msgs :
                    /\ msgs[j].room = chat_id
                    /\ msgs[j].type \in MESSAGE_TYPES_RETURN
                    /\ msgs[j].sender # NULL}
        senders == {msgs[j].sender : j \in rows}
        message_count == [s \in senders |-> Cardinality({j \in rows : msgs[j].sender = s})]
    IN IF IsGroup(i) /\ max_participants > 0
       THEN {[k \in DOMAIN s |-> get_contact_name(s[k], chat_id, LooksLikeMe(s[k]))] :
             s \in {SqlLimit(o, max_participants) : o \in OrderByDesc(senders, message_count)}}
       ELSE {<<>>}

\* one iteration of the row loop of fetch_chats for a row that is not skipped:
\* the set of outcomes
ChatOfRow(i, recent_messages_limit, max_participants) ==
    LET t == threads[i]
        last_open_time == IF t.lastOpenTime = NullInt THEN 0 ELSE t.lastOpenTime
        last_activity_timestamp ==
            IF last_message_time(t.id) \notin {NullInt, 0} THEN last_message_time(t.id)
            ELSE last_open_time
        chat == build_chat_from_id(t.id, nanoseconds_to_iso(last_activity_timestamp))
    IN {IF r.raised THEN Raised
        ELSE Returned([chat EXCEPT !.unread = t.isMarkedUnread \notin {NullInt, 0},
                                   !.participants = p,
                                   !.recent_messages = r.value]) :
        r \in RecentMessages(t.id, recent_messages_limit),
        p \in Participants(i, max_participants)}

\* the row loop of fetch_chats over rows (a sequence of thread rows)
RECURSIVE ChatLoop(_, _, _, _)
ChatLoop(rows, label, recent_messages_limit, max_participants) ==
    IF rows = <<>> THEN {Returned(<<>>)}
    ELSE LET rest == ChatLoop(Tail(rows), label, recent_messages_limit, max_participants)
         IN IF SkippedCommunity(Head(rows), label) THEN rest
            ELSE {IF h.raised \/ t.raised THEN Raised ELSE Returned(<<h.value>> \o t.value) :
                  h \in ChatOfRow(Head(rows), recent_messages_limit, max_participants),
                  t \in rest}

\* Python chats[:limit]: a negative limit counts from the end
SliceTo(s, n) ==
    IF n >= 0 THEN SubSeq(s, 1, Min(n, Len(s)))
    ELSE SubSeq(s, 1, IF Len(s) + n > 0 THEN Len(s) + n ELSE 0)

\* fetch_chats(index_conn, platform_dbs, label, include_low_priority, limit,
\* recent_messages_limit, sort_by, max_participants): the set of outcomes
fetch_chats(label, include_low_priority, limit, recent_messages_limit, sort_by, max_participants) ==
    LET selected == {i \in DOMAIN threads : ChatConditions(i, label, include_low_priority)}
    IN UNION {LET rows == IF label = "inbox" THEN apply_inbox_filters(s)
                          ELSE SqlLimit(s, limit)
              IN {IF c.raised THEN Raised
                  ELSE IF label = "inbox" THEN Returned(SliceTo(c.value, limit))
                  ELSE c :
                  c \in ChatLoop(rows, label, recent_messages_limit, max_participants)} :
              s \in OrderBy(selected, SortKey(selected, sort_by))}

\* server.list_chats
list_chats(label, sort_by, limit, recent_messages_limit, max_participants, include_low_priority) ==
    /\ Idle
    /\ call' = [op |-> "list_chats", label |-> label, sort_by |-> sort_by, limit |-> limit,
                recent_messages_limit |-> recent_messages_limit,
                max_participants |-> max_participants,
                include_low_priority |-> include_low_priority]
    /\ ret' \in ListTool(fetch_chats(label, include_low_priority, limit,
                                     recent_messages_limit, sort_by, max_participants))
    /\ UNCHANGED storeVars

\* the matching loop of search_chats_by_name: a chat is appended before the
\* length is compared with limit
RECURSIVE NameLoop(_, _, _, _)
NameLoop(all_chats, matching_chats, query_lower, limit) ==
    IF all_chats = <<>> THEN matching_chats
    ELSE IF Contains(Lower(Head(all_chats).name), query_lower)
    THEN IF Len(matching_chats) + 1 >= limit THEN Append(matching_chats, Head(all_chats))
         ELSE NameLoop(Tail(all_chats), Append(matching_chats, Head(all_chats)),
                       query_lower, limit)
    ELSE NameLoop(Tail(all_chats), matching_chats, query_lower, limit)

\* search_chats_by_name(index_conn, platform_dbs, query, label, limit): the set of
\* outcomes
search_chats_by_name(query, label, limit) ==
    {IF c.raised THEN Raised ELSE Returned(NameLoop(c.value, <<>>, Lower(query), limit)) :
     c \in fetch_chats(label, FALSE, limit * 3, 3, "latest_message", 10)}

\* server.search_chat_names
search_chat_names(query, label, limit) ==
    /\ Idle
    /\ call' = [op |-> "search_chat_names", query |-> query, label |-> label, limit |-> limit]
    /\ ret' \in ListTool(search_chats_by_name(query, label, limit))
    /\ UNCHANGED storeVars

--------------------------------------------------------------------------
(* Attachment resolution.  A URI, a URL and a path are token sequences in   *)
(* which every "/" and "?" that separates segments is a token of its own.   *)
(* env.files is the set of files on disk: [path, content], content being    *)
(* "image" (decodable), "bytes" (readable, not an image) or "locked".       *)

NoAttFields ==
    [mimeType |-> ABSENT, mimetype |-> ABSENT, fileName |-> ABSENT, filename |-> ABSENT,
     srcURL |-> ABSENT, url |-> ABSENT, href |-> ABSENT, id |-> ABSENT, mxc |-> ABSENT]

\* an entry of the attachments array: a JSON object, null, or a string
AttObj(fields) == fields @@ [kind |-> "obj"] @@ NoAttFields
AttNull == [kind |-> "null"] @@ NoAttFields
AttStr == [kind |-> "str"] @@ NoAttFields

ErrPrefix == <<"Invalid attachment URI format - must start with beeper://attachment/">>
ErrIndex == <<"Invalid attachment URI format - missing or bad index">>
ErrNoRoot == <<"Beeper directory not found">>
ErrNoDb == <<"Database not found">>
ErrNotFound == <<"Message not found or empty">>
ErrRange == <<"Attachment index out of range">>
ErrNoUrl == <<"Attachment has no URL">>
ErrProcess == <<"Failed to process media file">>
ErrNotOnDisk == <<"Media file not found on disk">>
ErrDatabase == <<"Database error">>

\* a result dict: ABSENT marks a key the dict does not have
NoResult ==
    [error |-> ABSENT, uri |-> ABSENT, type |-> ABSENT, mime_type |-> ABSENT,
     base64 |-> ABSENT, filepath |-> ABSENT, filename |-> ABSENT, attachment_url |-> ABSENT]

Result(fields) == fields @@ NoResult

ErrorResult(error, uri) == Result([error |-> error, uri |-> uri])

\* raise ValueError(message)
Raise(message) == [raised |-> TRUE, thrown |-> TRUE, value |-> message]

\* the startswith test, rsplit("/", 1) and int(idx) of get_media_attachment_content
ParseUri(attachment_uri) ==
    IF ~StartsWith(attachment_uri, AttachmentPrefix) THEN [ok |-> FALSE, error |-> ErrPrefix]
    ELSE LET rest == SubSeq(attachment_uri, Len(AttachmentPrefix) + 1, Len(attachment_uri))
             slashes == {i \in DOMAIN rest : rest[i] = "/"}
             cut == Max(slashes)
             idx == SubSeq(rest, cut + 1, Len(rest))
         IN IF slashes = {} \/ ~IsInt(idx) THEN [ok |-> FALSE, error |-> ErrIndex]
            ELSE [ok |-> TRUE, message_id |-> SubSeq(rest, 1, cut - 1),
                  attachment_index |-> IntOf(idx)]

\* SELECT roomID, message FROM mx_room_messages WHERE eventID = ?
EventRows(message_id) == {i \in DOMAIN msgs : msgs[i].eventID = message_id}

MediaDir == <<"/", "BeeperTexts", "/", "media", "/">>

\* the tokens of a URL or path that end in a slash
SlashToks == {"/", "file://", "mxc://"}

\* s.rsplit("/", 1)[-1]
LastSegment(s) ==
    LET slashes == {i \in DOMAIN s : s[i] \in SlashToks}
    IN IF slashes = {} THEN s ELSE SubSeq(s, Max(slashes) + 1, Len(s))

\* s.split("?", 1)[0]
BeforeQuery(s) ==
    LET marks == {i \in DOMAIN s : s[i] = "?"}
    IN IF marks = {} THEN s ELSE SubSeq(s, 1, FirstOf(marks) - 1)

\* Path(p).exists(); Path("") is the working directory
PathExists(p) == p = <<>> \/ \E f \in env.files : f.path = p

ContentAt(p) == IF p = <<>> THEN "dir" ELSE (CHOOSE f \in env.files : f.path = p).content

\* MediaSearch taking any file whose name contains candidate, exact or not
MediaSearch_AnyMatch(candidate) ==
    LET media == {f.path : f \in {g \in env.files : StartsWith(g.path, MediaDir)}}
        partly == {p \in media : Contains(LastSegment(p), candidate)}
    IN IF partly # {} THEN partly ELSE {NULL}

\* media_dir.rglob(candidate), else media_dir.rglob(f"*{candidate}*"): the paths
\* next() may give, {NULL} when nothing matches
MediaSearch(candidate) ==
    LET media == {f.path : f \in {g \in env.files : StartsWith(g.path, MediaDir)}}
        exact == {p \in media : LastSegment(p) = candidate}
        partly == {p \in media : Contains(LastSegment(p), candidate)}
    IN IF exact # {} THEN exact ELSE IF partly # {} THEN partly ELSE {NULL}

\* the file_path the resolver settles on: the set of choices, NULL for none
FilePaths(url, media_id_fallback) ==
    LET direct == IF ~Truthy(url) THEN NULL
                  ELSE LET p == IF Lower(url)[1] = "file://" THEN Tail(url) ELSE url
                       IN IF PathExists(p) THEN p ELSE NULL
        fromUrl == IF Truthy(url) THEN BeforeQuery(LastSegment(url)) ELSE <<>>
        candidate == IF fromUrl # <<>> THEN fromUrl ELSE media_id_fallback
    IN IF direct # NULL THEN {direct}
       ELSE IF Truthy(candidate) THEN MediaSearch(candidate)
       ELSE {NULL}

\* process_image_for_context(file_path)
process_image_for_context(file_path) ==
    IF ContentAt(file_path) # "image" THEN Raise(<<"Error processing image">>)
    ELSE Returned(Result([type |-> <<"image">>, mime_type |-> <<"image/", "jpeg">>,
                          base64 |-> <<"jpeg:">> \o file_path]))

\* process_binary_attachment(file_path, mime_type, att_type, filename)
process_binary_attachment(file_path, mime_type, att_type, filename) ==
    IF ContentAt(file_path) \notin {"image", "bytes"}
    THEN Raise(<<"Error processing binary attachment">>)
    ELSE Returned(Result([type |-> att_type, mime_type |-> mime_type,
                          base64 |-> <<"bytes:">> \o file_path, filename |-> filename]))

\* Deliver handing an audio file over by path instead of inline
Deliver_AudioByPath(file_path, att_type, mime, filename, url, attachment_uri, optimize_for_context) ==
    IF file_path # NULL
    THEN LET done == IF att_type = <<"image">> /\ optimize_for_context
                     THEN process_image_for_context(file_path)
                     ELSE IF att_type = <<"image">>
                     THEN process_binary_attachment(file_path, mime, att_type, filename)
                     ELSE Returned(Result([type |-> att_type, mime_type |-> mime,
                                           filepath |-> file_path]))
         IN IF done.raised THEN Returned(ErrorResult(ErrProcess, attachment_uri)) ELSE done
    ELSE Returned(Result([error |-> ErrNotOnDisk, type |-> att_type, mime_type |-> mime,
                          attachment_url |-> url, uri |-> attachment_uri]))

\* the part of get_media_attachment_content after the file path is settled
Deliver(file_path, att_type, mime, filename, url, attachment_uri, optimize_for_context) ==
    IF file_path # NULL
    THEN LET done == IF att_type = <<"image">> /\ optimize_for_context
                     THEN process_image_for_context(file_path)
                     ELSE IF att_type \in {<<"image">>, <<"audio">>}
                     THEN process_binary_attachment(file_path, mime, att_type, filename)
                     ELSE Returned(Result([type |-> att_type, mime_type |-> mime,
                                           filepath |-> file_path]))
         IN IF done.raised THEN Returned(ErrorResult(ErrProcess, attachment_uri)) ELSE done
    ELSE Returned(Result([error |-> ErrNotOnDisk, type |-> att_type, mime_type |-> mime,
                          attachment_url |-> url, uri |-> attachment_uri]))

\* the part of get_media_attachment_content that reads the attachment att
ResolveAttachment(att, attachment_uri, optimize_for_context) ==
    LET mime == Or(AttMime(att), DefaultMime)
        filename == Or(Get(att.fileName, NULL), Get(att.filename, NULL))
        att_type == infer_type(mime)
        url == Or(Or(Get(att.srcURL, NULL), Get(att.url, NULL)), Get(att.href, NULL))
        media_id_fallback == Or(Get(att.id, NULL), Get(att.mxc, NULL))
    IN IF att.kind = "str" THEN {Returned(ErrorResult(ErrDatabase, attachment_uri))}
       ELSE IF ~Truthy(url) /\ ~Truthy(media_id_fallback)
       THEN {Returned(ErrorResult(ErrNoUrl, attachment_uri))}
       ELSE IF Truthy(url) /\ StartsWith(Lower(url), <<"data:", "image/">>)
               /\ Contains(url, <<";base64,">>)
       THEN LET semi == FirstOf({i \in DOMAIN url : url[i] = ";base64,"})
            IN {Returned(Result([type |-> <<"image">>,
                                 mime_type |-> SubSeq(url, 2, semi - 1),
                                 base64 |-> SubSeq(url, semi + 1, Len(url))]))}
       ELSE {Deliver(file_path, att_type, mime, filename, url, attachment_uri,
                     optimize_for_context) :
             file_path \in FilePaths(url, media_id_fallback)}

\* the part of get_media_attachment_content that reads the row i it fetched
ResolveRow(i, attachment_index, attachment_uri, optimize_for_context) ==
    LET p == msgs[i].payload
    IN IF Empty(p) THEN {Returned(ErrorResult(ErrNotFound, attachment_uri))}
       ELSE IF p.kind # "obj" THEN {Returned(ErrorResult(ErrDatabase, attachment_uri))}
       ELSE IF p.attsKind # "list" \/ attachment_index < 0
               \/ attachment_index >= Len(p.atts)
       THEN {Returned(ErrorResult(ErrRange, attachment_uri))}
       ELSE ResolveAttachment(p.atts[attachment_index + 1], attachment_uri,
                              optimize_for_context)

\* get_media_attachment_content(attachment_uri, optimize_for_context): the set of
\* outcomes; fetchone() may give any row that carries the event id
get_media_attachment_content(attachment_uri, optimize_for_context) ==
    LET u == ParseUri(attachment_uri)
    IN IF ~u.ok THEN {Raise(u.error)}
       ELSE IF ~env.root THEN {Raise(ErrNoRoot)}
       ELSE IF ~env.index THEN {Returned(ErrorResult(ErrNoDb, attachment_uri))}
       ELSE IF EventRows(u.message_id) = {}
       THEN {Returned(ErrorResult(ErrNotFound, attachment_uri))}
       ELSE UNION {ResolveRow(i, u.attachment_index, attachment_uri, optimize_for_context) :
                   i \in EventRows(u.message_id)}

\* with sqlite3.connect(str(db_path)) as index_conn: the with statement ends the
\* transaction and does not close the connection; nothing else closes it, so it
\* is closed only if the interpreter has finalized the object by the return
MediaConnections(attachment_uri) ==
    IF ~ParseUri(attachment_uri).ok \/ StoreMissing THEN {Connections(0, 0)}
    ELSE {Connections(1, 0), Connections(1, 1)}

\* server.get_media_attachment without its try/except
MediaTool_Unguarded(outcome, attachment_uri) == outcome

\* try: return result / except Exception as e: return {"error": str(e), "uri": ...}
MediaTool(outcome, attachment_uri) ==
    IF outcome.raised THEN Returned(ErrorResult(outcome.value, attachment_uri)) ELSE outcome

\* get_media_attachment connecting without the db_path.exists() test:
\* sqlite3.connect creates index.db when it is missing
get_media_attachment_Creating(attachment_uri, optimize_for_context) ==
    /\ Idle
    /\ call' = [op |-> "get_media_attachment", attachment_uri |-> attachment_uri,
                optimize_for_context |-> optimize_for_context]
    /\ \E outcome \in get_media_attachment_content(attachment_uri, optimize_for_context),
          conn \in MediaConnections(attachment_uri) :
          ret' = MediaTool(outcome, attachment_uri) @@ conn
    /\ env' = [env EXCEPT !.index = TRUE]
    /\ UNCHANGED <<msgs, threads>>

\* server.get_media_attachment
get_media_attachment(attachment_uri, optimize_for_context) ==
    /\ Idle
    /\ call' = [op |-> "get_media_attachment", attachment_uri |-> attachment_uri,
                optimize_for_context |-> optimize_for_context]
    /\ \E outcome \in get_media_attachment_content(attachment_uri, optimize_for_context),
          conn \in MediaConnections(attachment_uri) :
          ret' = MediaTool(outcome, attachment_uri) @@ conn
    /\ UNCHANGED storeVars

--------------------------------------------------------------------------
(* The archive is written by the messaging application, never by this layer *)

InsertMessage(pool) ==
    /\ Idle
    /\ Len(msgs) < MaxMsgs
    /\ \E m \in pool : msgs' = Append(msgs, m)
    /\ call' = NoCall
    /\ ret' = Returned(<<>>)
    /\ UNCHANGED <<threads, env>>

Init ==
    /\ msgs = <<>>
    /\ threads = <<>>
    /\ env = [root |-> TRUE, index |-> TRUE, platforms |-> <<>>, files |-> {}, now |-> 86401500]
    /\ call = NoCall
    /\ ret = Returned(<<>>)

ChatA == <<"!", "a", ":", "whatsapp", ".com">>
ChatB == <<"!", "b", ":", "signal", ".org">>
Bob == <<"@", "bob", ":", "whatsapp", ".com">>

Limits == 0..MaxLimit

TextPayload(t) == ObjPayload([text |-> t])

MsgRow(room, sender, type, payload, ts, eventID) ==
    [room |-> room, sender |-> sender, type |-> type, payload |-> payload, ts |-> ts,
     isMe |-> FALSE, inReplyTo |-> NULL, eventID |-> eventID, hsOrder |-> NullInt]

PoolFetch ==
    {MsgRow(room, Bob, type, payload, ts, NULL) :
        room \in {ChatA, ChatB}, type \in {"TEXT", "STICKER"},
        payload \in {NullPayload, TextPayload(<<"a">>)}, ts \in {1000, 2000}}

MaxSearchMsgs == 2
MaxRun == 11

\* a short archive of any messages of the pool
InsertFew(pool) == Len(msgs) < MaxSearchMsgs /\ InsertMessage(pool)

\* a busy hour in one chat: the messages of pool arrive one millisecond apart
InsertRun(pool) ==
    /\ Idle
    /\ Len(msgs) < MaxRun
    /\ \A i \in DOMAIN msgs : msgs[i].room = ChatA /\ msgs[i].ts = 5000 + i
    /\ \E m \in pool : msgs' = Append(msgs, [m EXCEPT !.room = ChatA, !.ts = 5001 + Len(msgs)])
    /\ call' = NoCall
    /\ ret' = Returned(<<>>)
    /\ UNCHANGED <<threads, env>>

PoolSearch ==
    {MsgRow(room, Bob, type, TextPayload(text), ts, NULL) :
        room \in {ChatA, ChatB}, type \in {"TEXT", "STICKER"},
        text \in {<<"a">>, <<"A", "b">>}, ts \in {1000, 3601000, 3601001}}
    \cup {MsgRow(ChatB, Bob, "TEXT", PlainPayload(<<"a">>), 1000, NULL)}
    \cup {[MsgRow(ChatA, Bob, "TEXT", TextPayload(<<"a">>), 1000, NULL) EXCEPT !.isMe = TRUE]}

PoolRun == {MsgRow(ChatA, Bob, "TEXT", TextPayload(<<"a">>), 0, NULL)}

Queries == {<<"a">>, <<"b">>, <<"_">>}

NextSearch ==
    \/ InsertFew(PoolSearch)
    \/ InsertRun(PoolRun)
    \/ \E query \in Queries, chat_id \in {NULL, ChatA}, limit \in Limits,
          include_context \in BOOLEAN :
          search_message_contents(query, chat_id, limit, include_context)
    \/ Respond

SpecSearch == Init /\ [][NextSearch]_vars

MaxPersonMsgs == 2

ChatG == <<"!", "Group", "1", ":", "signal", ".org">>
Al == <<"@", "al", ":", "signal", ".org">>

InsertThread(pool) ==
    /\ Idle
    /\ \E t \in pool :
          /\ \A k \in DOMAIN threads : threads[k].id # t.id
          /\ threads' = Append(threads, t)
    /\ UNCHANGED <<msgs, env, call, ret>>

ThreadRow(id, title, participants) ==
    [id |-> id, title |-> title, participants |-> participants, ttype |-> "",
     isLowPriority |-> 0, isMarkedUnread |-> NullInt, isArchivedUpto |-> NullInt,
     tags |-> NULL, archivedUpToOrder |-> NullInt, lastOpenTime |-> NullInt]

PoolPersonThreads ==
    {ThreadRow(ChatG, <<"Team">>, <<[id |-> Al, fullName |-> <<"Bob", " ", "Jr">>]>>)}

PoolPerson ==
    {MsgRow(room, sender, type, TextPayload(<<"a">>), ts, NULL) :
        room \in {ChatA, ChatG}, sender \in {Bob, Al},
        type \in {"TEXT", "STICKER", "HIDDEN"}, ts \in {1000, 2000}}

NextPerson ==
    \/ Len(msgs) < MaxPersonMsgs /\ InsertMessage(PoolPerson)
    \/ InsertThread(PoolPersonThreads)
    \/ \E person_name \in {<<"bob">>, <<"al">>}, limit \in Limits,
          platform \in {NULL, <<"WhatsApp">>}, chat_type \in {"", "dm"},
          days_back \in {0, 1}, include_context \in BOOLEAN :
          get_person_messages(person_name, limit, platform, chat_type, days_back,
                              include_context)
    \/ Respond

SpecPerson == Init /\ [][NextPerson]_vars

MaxInboxMsgs == 2
MaxInboxThreads == 2
MaxPlatforms == 1

ChatW == <<"!", "Group", "2", ":", "whatsapp", ".com">>
ChatS == <<"!", "s", ":", "beeper.local">>
ChatC == <<"!", "c", ":", "beeper.com">>

Favourite == <<"[", "favourite", "]">>
NoTags == <<"[", "]">>

\* a megabridge.db appears under a local-* directory of the archive root
InsertPlatform(pool) ==
    /\ Idle
    /\ Len(env.platforms) < MaxPlatforms
    /\ \E db \in pool : env' = [env EXCEPT !.platforms = Append(@, db)]
    /\ UNCHANGED <<msgs, threads, call, ret>>

PoolInboxPlatforms ==
    {[dir |-> <<"local-", "whatsapp">>, broken |-> broken, ghost |-> <<>>,
      portal |-> <<[mxid |-> ChatW, other_user_id |-> NULL,
                    room_type |-> <<"space">>, parent_id |-> NULL]>>] :
        broken \in BOOLEAN}

PoolInboxThreads ==
    {[ThreadRow(ChatA, <<"Al">>, <<>>) EXCEPT
         !.tags = tags, !.isArchivedUpto = upto, !.archivedUpToOrder = order] :
        tags \in {NoTags, Favourite}, upto \in {NullInt, 1}, order \in {NullInt, 2}}
    \cup {[ThreadRow(ChatA, <<"Al">>, <<>>) EXCEPT
             !.isArchivedUpto = 1, !.archivedUpToOrder = 2]}
    \cup {[ThreadRow(ChatS, NULL, <<>>) EXCEPT !.tags = tags] : tags \in {NoTags, Favourite}}
    \cup {[ThreadRow(ChatC, NULL, <<>>) EXCEPT !.tags = Favourite]}
    \cup {[ThreadRow(ChatW, <<"Team">>, <<>>) EXCEPT !.tags = tags, !.lastOpenTime = 3000] :
            tags \in {NoTags, Favourite}}
    \cup {[ThreadRow(ChatA, <<"Zed">>, <<>>) EXCEPT !.tags = Favourite, !.isLowPriority = 1]}

PoolInbox ==
    {[MsgRow(ChatA, Bob, "TEXT", TextPayload(<<"a">>), 1000, NULL) EXCEPT !.hsOrder = order] :
        order \in {1, 2, 3}}
    \cup {[MsgRow(ChatA, Bob, "HIDDEN", TextPayload(<<"a">>), 1000, NULL) EXCEPT !.hsOrder = 3]}
    \cup {[MsgRow(ChatW, Bob, "TEXT", TextPayload(<<"a">>), 2000, NULL) EXCEPT !.hsOrder = 3]}

SortKeys == {"latest_message", "last_active", "name"}

NextInbox ==
    \/ Len(msgs) < MaxInboxMsgs /\ InsertMessage(PoolInbox)
    \/ Len(threads) < MaxInboxThreads /\ InsertThread(PoolInboxThreads)
    \/ InsertPlatform(PoolInboxPlatforms)
    \/ \E label \in Labels, sort_by \in SortKeys :
          list_chats(label, sort_by, MaxLimit, 1, 5, FALSE)
    \/ \E limit \in Limits : list_chats("inbox", "latest_message", limit, 1, 5, FALSE)
    \/ Respond

SpecInbox == Init /\ [][NextInbox]_vars

MaxMediaMsgs == 2
MaxFiles == 2

\* the archive root or index.db goes away or comes back
SetStore ==
    /\ Idle
    /\ \E root, index \in BOOLEAN :
          /\ root \/ ~index
          /\ env' = [env EXCEPT !.root = root, !.index = index]
    /\ UNCHANGED <<msgs, threads, call, ret>>

\* a message with an event id of its own, or with none
InsertEvent(pool) ==
    /\ Len(msgs) < MaxMediaMsgs
    /\ \E m \in pool :
          /\ Truthy(m.eventID) => \A i \in DOMAIN msgs : msgs[i].eventID # m.eventID
          /\ msgs' = Append(msgs, m)
    /\ Idle
    /\ call' = NoCall
    /\ ret' = Returned(<<>>)
    /\ UNCHANGED <<threads, env>>

\* a file appears on disk
WriteFile(pool) ==
    /\ Idle
    /\ Cardinality(env.files) < MaxFiles
    /\ \E f \in pool :
          /\ \A g \in env.files : g.path # f.path
          /\ env' = [env EXCEPT !.files = @ \cup {f}]
    /\ UNCHANGED <<msgs, threads, call, ret>>

Evt1 == <<"$evt1">>
Evt2 == <<"$evt", "/", "2">>

PicPath == <<"/", "tmp", "/", "pic.jpg">>
ClipPath == MediaDir \o <<"vid1", ".mp4">>

AttPic == AttObj([mimeType |-> <<"image/", "jpeg">>, url |-> PicPath])
AttSong == AttObj([mimetype |-> <<"audio/", "mpeg">>, srcURL |-> <<"file://">> \o PicPath,
                   fileName |-> <<"a.mp3">>])
AttClip == AttObj([mimeType |-> <<"video/", "mp4">>, id |-> <<"vid1">>])
AttInline == AttObj([url |-> <<"data:", "image/", "png", ";base64,", "QUJD">>])
AttBare == AttObj([mimeType |-> <<"image/", "png">>])

AttDoc == AttObj([href |-> <<"https://", "x", "/", "vid1", "?", "t">>])

AttachmentsPayload(atts) == ObjPayload([text |-> <<"a">>, attsKind |-> "list", atts |-> atts])

PoolMedia ==
    {MsgRow(ChatA, Bob, "IMAGE", payload, 1000, eventID) :
        payload \in {AttachmentsPayload(<<AttPic>>), AttachmentsPayload(<<AttNull, AttSong>>),
                     AttachmentsPayload(<<AttStr, AttClip>>),
                     AttachmentsPayload(<<AttInline, AttBare>>), AttachmentsPayload(<<AttDoc>>)},
        eventID \in {NULL, Evt1, Evt2}}
    \cup {MsgRow(ChatA, Bob, "TEXT", payload, 2000, Evt1) :
            payload \in {PlainPayload(<<"a">>), TextPayload(<<"a">>)}}
    \cup {MsgRow(ChatA, Bob, "IMAGE", AttachmentsPayload(<<AttPic>>), 2000, <<>>)}

PoolFiles ==
    {[path |-> PicPath, content |-> c] : c \in {"image", "bytes", "locked"}}
    \cup {[path |-> ClipPath, content |-> "bytes"]}

Uris ==
    {BuildUri(id, i) : id \in {Evt1, Evt2, <<"msg_">> \o IntStr(1000)}, i \in 0..2}
    \cup {<<>>, <<"http://", "x", "/", "0">>, AttachmentPrefix, AttachmentPrefix \o Evt1,
          AttachmentPrefix \o Evt1 \o <<"/">>, AttachmentPrefix \o Evt1 \o <<"/", "x">>,
          AttachmentPrefix \o Evt1 \o <<"/", "-", "1">>}

NextMedia ==
    \/ InsertEvent(PoolMedia)
    \/ WriteFile(PoolFiles)
    \/ SetStore
    \/ get_messages(ChatA, MaxLimit, NoDate, NoDate)
    \/ \E attachment_uri \in Uris, optimize_for_context \in BOOLEAN :
          get_media_attachment(attachment_uri, optimize_for_context)
    \/ Respond

SpecMedia == Init /\ [][NextMedia]_vars

\* four chats opened at different times, each titled A or Bob
PoolNameThreads ==
    {[ThreadRow(c[1], title, <<>>) EXCEPT !.lastOpenTime = c[2]] :
        c \in {<<ChatA, 4000>>, <<ChatB, 3000>>, <<ChatG, 2000>>, <<ChatW, 1000>>},
        title \in {<<"A">>, <<"Bob">>}}

NextNames ==
    \/ InsertThread(PoolNameThreads)
    \/ \E query \in {<<"a">>, <<"Bob">>}, limit \in 0..1 : search_chat_names(query, "all", limit)
    \/ Respond

SpecNames == Init /\ [][NextNames]_vars

\* the platform stores get_chat_name connects to: those whose directory name holds
\* the platform of chat_id, in turn, up to the first that gives a name
ChatNameStores(thread_title, chat_id) ==
    IF Truthy(thread_title) THEN {}
    ELSE LET matching == {k \in DOMAIN env.platforms :
                             Contains(env.platforms[k].dir, <<PlatformLower(chat_id)>>)}
             named == {k \in matching : /\ ~env.platforms[k].broken
                                        /\ GhostName(env.platforms[k], chat_id) # NULL}
         IN IF named = {} THEN matching ELSE {k \in matching : k <= FirstOf(named)}

\* the platform stores check_community connects to: the first WhatsApp store
CommunityStores(chat_id) ==
    LET wa == FirstOf({k \in DOMAIN env.platforms :
                          Contains(env.platforms[k].dir, <<"whatsapp">>)})
    IN IF wa = 0 THEN {} ELSE {wa}

\* with sqlite3.connect(str(db_path)) as conn: one connection per store, which the
\* with statement does not close; each is closed at the return only if the
\* interpreter has finalized it
AuxConnections(stores) ==
    {Connections(Cardinality(stores), open) : open \in 0..Cardinality(stores)}

\* get_chat_name applied to one thread title and chat id
ChatName(thread_title, chat_id) ==
    /\ Idle
    /\ call' = [op |-> "get_chat_name", thread_title |-> thread_title, chat_id |-> chat_id]
    /\ \E conn \in AuxConnections(ChatNameStores(thread_title, chat_id)) :
          ret' = Returned(get_chat_name(thread_title, chat_id)) @@ conn
    /\ UNCHANGED storeVars

\* check_community applied to one chat id
CheckCommunity(chat_id) ==
    /\ Idle
    /\ call' = [op |-> "check_community", chat_id |-> chat_id]
    /\ \E conn \in AuxConnections(CommunityStores(chat_id)) :
          ret' = Returned(<<check_community(chat_id)>>) @@ conn
    /\ UNCHANGED storeVars

\* platform stores that answer or fail, with and without a portal row and a ghost
\* name for the chats
PoolAuxPlatforms ==
    {[dir |-> <<"local-", platform>>, broken |-> broken, ghost |-> ghost, portal |-> portal] :
        platform \in {"whatsapp", "signal"}, broken \in BOOLEAN,
        ghost \in {<<>>, <<[id |-> Bob, name |-> <<"Bob">>]>>},
        portal \in {<<>>,
                    <<[mxid |-> ChatA, other_user_id |-> Bob,
                       room_type |-> NULL, parent_id |-> NULL]>>,
                    <<[mxid |-> ChatW, other_user_id |-> NULL,
                       room_type |-> <<"space">>, parent_id |-> NULL]>>}}

NextAux ==
    \/ InsertPlatform(PoolAuxPlatforms)
    \/ \E thread_title \in {NULL, <<"Al">>}, chat_id \in {ChatA, ChatB, ChatW} :
          ChatName(thread_title, chat_id)
    \/ \E chat_id \in {ChatA, ChatW} : CheckCommunity(chat_id)
    \/ Respond

SpecAux == Init /\ [][NextAux]_vars

\* threads for get_contact_name: no participants, a participant with a full name,
\* without the fullName key, with a JSON null fullName, another participant only,
\* and the sender listed twice
PoolContactThreads ==
    {ThreadRow(ChatA, <<"Al">>, participants) :
        participants \in {<<>>,
                          <<[id |-> Bob, fullName |-> <<"Bob", " ", "S">>]>>,
                          <<[id |-> Bob, fullName |-> ABSENT]>>,
                          <<[id |-> Bob, fullName |-> NULL]>>,
                          <<[id |-> Al, fullName |-> <<"Al">>]>>,
                          <<[id |-> Al, fullName |-> <<"Al">>],
                            [id |-> Bob, fullName |-> ABSENT],
                            [id |-> Bob, fullName |-> <<"Bob">>]>>}}
    \cup {ThreadRow(ChatB, NULL, <<[id |-> Bob, fullName |-> <<"Robert">>]>>)}

\* get_contact_name applied to one sender, room and sent-by-me flag
ContactName(sender_id, room_id, is_from_me) ==
    /\ Idle
    /\ call' = [op |-> "get_contact_name", sender_id |-> sender_id, room_id |-> room_id,
                is_from_me |-> is_from_me]
    /\ ret' = Returned(get_contact_name(sender_id, room_id, is_from_me))
    /\ UNCHANGED storeVars

NextContact ==
    \/ InsertThread(PoolContactThreads)
    \/ \E sender_id \in {Bob, Al}, room_id \in {ChatA, ChatB}, is_from_me \in BOOLEAN :
          ContactName(sender_id, room_id, is_from_me)
    \/ Respond

SpecContact == Init /\ [][NextContact]_vars

\* attachments and files for the choice of the byte source: an inline image that
\* also has a media id, a bare path and a file:// URL, a media id alone, remote
\* URLs; a file outside the media directory, and in it a file of the same name,
\* a file named as the media id and one whose name contains it
AttInlineId == AttObj([url |-> <<"data:", "image/", "png", ";base64,", "QUJD">>, id |-> <<"vid1">>])
AttRemote == AttObj([mimeType |-> <<"video/", "mp4">>, id |-> <<"vid1">>,
                     url |-> <<"https://", "x", "/", "pic.jpg">>])

SourceAtts == {AttInlineId, AttPic, AttSong, AttClip, AttDoc, AttRemote}

PoolSource ==
    {MsgRow(ChatA, Bob, "IMAGE", AttachmentsPayload(<<att>>), 1000, Evt1) : att \in SourceAtts}

PoolSourceFiles ==
    {[path |-> path, content |-> "image"] :
        path \in {PicPath, MediaDir \o <<"pic.jpg">>, MediaDir \o <<"vid1">>, ClipPath}}

NextSource ==
    \/ InsertEvent(PoolSource)
    \/ WriteFile(PoolSourceFiles)
    \/ \E optimize_for_context \in BOOLEAN :
          get_media_attachment(BuildUri(Evt1, 0), optimize_for_context)
    \/ Respond

SpecSource == Init /\ [][NextSource]_vars

\* payloads for extract_message_attachments: every attachments array of up to two
\* entries, an attachments field that is absent, null or not a list, and payloads
\* that are empty, not JSON, or JSON and not an object
AttEntries == {AttPic, AttSong, AttClip, AttDoc, AttNull, AttStr}

AttInputs ==
    {AttachmentsPayload(atts) :
        atts \in {<<>>} \cup {<<a>> : a \in AttEntries}
                  \cup {<<a, b>> : a \in AttEntries, b \in AttEntries}}
    \cup {ObjPayload([attsKind |-> k]) : k \in {"absent", "null", "other"}}
    \cup {NullPayload, PlainPayload(<<>>), PlainPayload(<<"hi">>), BadJsonPayload,
          ArrayPayload, ScalarPayload}

\* extract_message_attachments applied to one payload and message id
ExtractAttachments(message_json, message_id) ==
    /\ Idle
    /\ call' = [op |-> "extract_message_attachments", message_json |-> message_json,
                message_id |-> message_id]
    /\ ret' = LET r == extract_message_attachments(message_json, message_id)
              IN IF r.raised THEN Raised ELSE Returned(r.atts)
    /\ UNCHANGED storeVars

NextAtts ==
    \/ \E message_json \in AttInputs, message_id \in {Evt1, Evt2, <<"msg_">> \o IntStr(1000)} :
          ExtractAttachments(message_json, message_id)
    \/ Respond

SpecAtts == Init /\ [][NextAtts]_vars

\* payloads and declared types for extract_message_text
TextInputs ==
    {ObjPayload([body |-> body, text |-> text, url |-> url, filename |-> filename,
                 geo_uri |-> geo_uri, display_name |-> display_name]) :
        body \in {ABSENT, NULL, <<"b">>}, text \in {ABSENT, NULL, <<"t">>},
        url \in {ABSENT, <<>>, <<"u">>}, filename \in {ABSENT, <<"f">>},
        geo_uri \in {ABSENT, <<"g">>}, display_name \in {ABSENT, <<"n">>}}
    \cup {NullPayload, PlainPayload(<<>>), PlainPayload(<<"hi">>), BadJsonPayload,
          ArrayPayload, ScalarPayload}

TextTypes == MESSAGE_TYPES_EXTENDED \cup {"NOTICE", "text", ""}

\* extract_message_text applied to one payload and declared type
ExtractText(message_input, message_type) ==
    /\ Idle
    /\ call' = [op |-> "extract_message_text", message_input |-> message_input,
                message_type |-> message_type]
    /\ ret' = Returned(extract_message_text(message_input, message_type))
    /\ UNCHANGED storeVars

NextText ==
    \/ \E message_input \in TextInputs, message_type \in TextTypes :
          ExtractText(message_input, message_type)
    \/ Respond

SpecText == Init /\ [][NextText]_vars

MaxRecentMsgs == 2

\* a text of n characters
Chars(n) == [k \in 1..n |-> "x"]

\* messages with no payload, with a text of exactly the preview length and with a
\* text one character longer
PoolRecent ==
    {MsgRow(room, Bob, type, payload, ts, NULL) :
        room \in {ChatA, ChatB}, type \in {"TEXT", "STICKER"},
        payload \in {NullPayload, TextPayload(Chars(PreviewLen)),
                     TextPayload(Chars(PreviewLen + 1))},
        ts \in {1000, 2000}}

PoolRecentThreads == {ThreadRow(ChatA, <<"Al">>, <<>>), ThreadRow(ChatB, <<"Bea">>, <<>>)}

NextRecent ==
    \/ Len(msgs) < MaxRecentMsgs /\ InsertMessage(PoolRecent)
    \/ InsertThread(PoolRecentThreads)
    \/ \E recent_messages_limit \in 0..MaxLimit :
          list_chats("all", "latest_message", MaxLimit, recent_messages_limit, 5, FALSE)
    \/ Respond

SpecRecent == Init /\ [][NextRecent]_vars

MaxToolMsgs == 2

NullText == ObjPayload([text |-> NULL])

PoolTools ==
    {MsgRow(ChatA, sender, "TEXT", payload, ts, NULL) :
        sender \in {Bob, NULL},
        payload \in {TextPayload(<<"a">>), PlainPayload(<<"a">>), BadJsonPayload, NullText},
        ts \in {1000, 2000}}

PoolToolThreads == {ThreadRow(ChatA, <<"a">>, <<>>)}

NextTools ==
    \/ Len(msgs) < MaxToolMsgs /\ InsertMessage(PoolTools)
    \/ InsertThread(PoolToolThreads)
    \/ SetStore
    \/ \E label \in {"inbox", "all"} : list_chats(label, "latest_message", MaxLimit, 1, 5, FALSE)
    \/ \E limit \in Limits : get_messages(ChatA, limit, NoDate, NoDate)
    \/ \E include_context \in BOOLEAN :
          search_message_contents(<<"a">>, NULL, MaxLimit, include_context)
    \/ \E label \in {"inbox", "all"} : search_chat_names(<<"a">>, label, MaxLimit)
    \/ get_person_messages(<<"bob">>, MaxLimit, NULL, "", 0, FALSE)
    \/ \E attachment_uri \in {BuildUri(Evt1, 0), <<>>} :
          get_media_attachment(attachment_uri, FALSE)
    \/ Respond

SpecTools == Init /\ [][NextTools]_vars

\* date arguments: none, a string that is not ISO-8601, and two instants
DateBounds == {NoDate, BadDate, IsoDate(2000), IsoMicros(1000500)}

NextFetch ==
    \/ InsertMessage(PoolFetch)
    \/ \E chat_id \in {ChatA, ChatB}, limit \in Limits, before, after \in DateBounds :
          get_messages(chat_id, limit, before, after)
    \/ Respond

SpecFetch == Init /\ [][NextFetch]_vars

--------------------------------------------------------------------------
(* Properties *)

\* the rowids a returned message list was built from
Srcs(list) == {list[k].src : k \in DOMAIN list}

NoRepeat(list) == \A j, k \in DOMAIN list : j # k => list[j].src # list[k].src

NewestFirst(list) ==
    \A k \in 1..(Len(list) - 1) : msgs[list[k].src].ts >= msgs[list[k + 1].src].ts

OldestFirst(list) ==
    \A k \in 1..(Len(list) - 1) : msgs[list[k].src].ts <= msgs[list[k + 1].src].ts

\* the stored messages of chat_id that fetch_messages may return
Returnable(chat_id) ==
    {i \in DOMAIN msgs : /\ msgs[i].room = chat_id
                         /\ msgs[i].type \in {"TEXT", "IMAGE", "VIDEO", "AUDIO", "FILE", "CONTACT"}
                         /\ msgs[i].payload # NullPayload}

FetchedPlain ==
    call.op = "get_messages" /\ ~ret.raised /\ call.before = NoDate /\ call.after = NoDate

Searched == call.op = "search_message_contents" /\ ~ret.raised

ReturnableTypes == {"TEXT", "IMAGE", "VIDEO", "AUDIO", "FILE", "CONTACT"}

\* C2: search_messages(query, chat_id?, limit) returns at most limit results, one per
\* matching message, newest match first; every match is a returnable-type message
\* whose extracted text contains query as a substring (letter case aside), and with
\* a chat_id every result's chat is chat_id.
C2_SearchSubstring ==
    Searched =>
        LET out == ret.value
        IN /\ Len(out) <= call.limit
           /\ \A j, k \in DOMAIN out : j # k => out[j].match.src # out[k].match.src
           /\ \A k \in 1..(Len(out) - 1) :
                 msgs[out[k].match.src].ts >= msgs[out[k + 1].match.src].ts
           /\ \A k \in DOMAIN out :
                 LET m == msgs[out[k].match.src]
                 IN /\ m.type \in ReturnableTypes
                    /\ m.payload.kind = "obj"
                    /\ Contains(Lower(m.payload.text), Lower(call.query))
                    /\ Contains(Lower(out[k].match.text), Lower(call.query))
                    /\ out[k].chat.chat_id = m.room
                    /\ call.chat_id # NULL => out[k].chat.chat_id = call.chat_id

\* the stored messages of the chat of rowid m at most one hour from it
HourAround(m) ==
    {i \in DOMAIN msgs : /\ msgs[i].room = msgs[m].room
                         /\ msgs[i].ts >= msgs[m].ts - 3600000
                         /\ msgs[i].ts <= msgs[m].ts + 3600000}

\* C3 as claimed: with include_context each result lists all same-chat messages at
\* most one hour from the match, oldest first (the single match if there is none);
\* without it, the single match.
C3_ContextAllInWindow ==
    Searched =>
        \A k \in DOMAIN ret.value :
            LET r == ret.value[k]
                win == HourAround(r.match.src)
            IN IF call.include_context /\ win # {}
               THEN Srcs(r.messages) = win /\ NoRepeat(r.messages) /\ OldestFirst(r.messages)
               ELSE r.messages = <<r.match>>

\* the part of HourAround(m) that has a returnable type and a payload
ReturnableAround(m) ==
    {i \in HourAround(m) : msgs[i].type \in ReturnableTypes /\ msgs[i].payload # NullPayload}

\* C3 (amended): with include_context each result lists the first 10 at most, oldest
\* first, of the same-chat messages of returnable type with a payload that lie at
\* most one hour (3,600,000 ms, bounds included) from the match, or the single
\* match if there is none; without include_context it lists the single match.
C3_ContextFirstTenReturnable ==
    Searched =>
        \A k \in DOMAIN ret.value :
            LET r == ret.value[k]
                win == ReturnableAround(r.match.src)
                list == r.messages
            IN IF call.include_context /\ win # {}
               THEN /\ Srcs(list) \subseteq win
                    /\ NoRepeat(list)
                    /\ OldestFirst(list)
                    /\ Len(list) = Min(10, Cardinality(win))
                    /\ \A i \in win \ Srcs(list) :
                          \A j \in DOMAIN list : msgs[i].ts >= msgs[list[j].src].ts
               ELSE list = <<r.match>>

\* a search with context whose match has more than ten messages in its hour
C3_Witness ==
    /\ Searched
    /\ call.include_context
    /\ \E k \in DOMAIN ret.value : Cardinality(ReturnableAround(ret.value[k].match.src)) > 10

\* a search with context where the hour around a match holds a sticker
C3_WitnessSticker ==
    /\ Searched
    /\ call.include_context
    /\ \E k \in DOMAIN ret.value :
          \E i \in HourAround(ret.value[k].match.src) : msgs[i].type = "STICKER"

ByPerson == call.op = "get_person_messages" /\ ~ret.raised

\* the stored messages of chat_id that a get_messages_by_person call asks for:
\* sent by a sender whose name matches, and passing the platform, chat-type and
\* recency filters
PersonMatches(chat_id) ==
    {i \in DOMAIN msgs :
        /\ msgs[i].room = chat_id
        /\ msgs[i].type \in ReturnableTypes \cup {"STICKER", "LOCATION"}
        /\ msgs[i].sender \in MatchingSenders(call.person_name).ids
        /\ call.platform # NULL => Contains(Lower(chat_id), Lower(call.platform))
        /\ call.chat_type = "dm" => ~LooksLikeGroup(chat_id)
        /\ call.days_back > 0 => msgs[i].ts > env.now - call.days_back * 86400000}

\* C4: get_messages_by_person (limit >= 1) returns exactly one result per chat with
\* a matching message, and without context each result lists the chat's
\* min(limit, n) newest matching messages, newest first.
C4_OneResultPerChat ==
    (ByPerson /\ call.limit >= 1) =>
        LET out == ret.value
            chats == {msgs[i].room : i \in {j \in DOMAIN msgs : j \in PersonMatches(msgs[j].room)}}
        IN /\ {out[k].chat.chat_id : k \in DOMAIN out} = chats
           /\ \A j, k \in DOMAIN out : j # k => out[j].chat.chat_id # out[k].chat.chat_id
           /\ ~call.include_context =>
                 \A k \in DOMAIN out :
                    LET list == out[k].messages
                        q == PersonMatches(out[k].chat.chat_id)
                    IN /\ Srcs(list) \subseteq q
                       /\ NoRepeat(list)
                       /\ NewestFirst(list)
                       /\ Len(list) = Min(call.limit, Cardinality(q))
                       /\ \A i \in q \ Srcs(list) :
                             \A n \in DOMAIN list : msgs[i].ts <= msgs[list[n].src].ts

\* every message list the last call returned
ReturnedLists ==
    IF ret.raised \/ call.op = "none" THEN {}
    ELSE IF call.op = "get_messages" THEN {ret.value}
    ELSE IF call.op \in {"search_message_contents", "get_person_messages"}
         THEN {ret.value[k].messages : k \in DOMAIN ret.value}
              \cup {<<ret.value[k].match>> : k \in DOMAIN ret.value}
    ELSE IF call.op = "list_chats"
         THEN {ret.value[k].recent_messages : k \in DOMAIN ret.value}
    ELSE {}

\* C8: every message of every returned message list has a stored type in
\* {TEXT, IMAGE, VIDEO, AUDIO, FILE, CONTACT}.
C8_OnlyReturnableTypes ==
    \A list \in ReturnedLists : \A k \in DOMAIN list : msgs[list[k].src].type \in ReturnableTypes


--------------------------------------------------------------------------
(* Inbox *)

InboxListed == call.op = "list_chats" /\ call.label = "inbox" /\ ~ret.raised

Listed(chat_id) == \E k \in DOMAIN ret.value : ret.value[k].chat_id = chat_id

\* the base query selects the thread and the community check does not skip it
InboxCandidate(i) ==
    /\ threads[i].isLowPriority = 0
    /\ ~SkippedCommunity(i, "inbox")

HasSystemSuffix(chat_id) ==
    /\ Len(chat_id) >= 2
    /\ chat_id[Len(chat_id)] \in {"beeper.local", "beeper.com"}
    /\ chat_id[Len(chat_id) - 1] = ":"

TaggedFavourite(i) == threads[i].tags # NULL /\ Contains(threads[i].tags, <<"favourite">>)

\* the hsOrder values of the chat's messages that are not HIDDEN
VisibleOrders(chat_id) ==
    {msgs[i].hsOrder : i \in {j \in DOMAIN msgs :
        msgs[j].room = chat_id /\ msgs[j].type # "HIDDEN" /\ msgs[j].hsOrder # NullInt}}

ArchivedWithMarker(i) ==
    /\ ~HasSystemSuffix(threads[i].id)
    /\ ~TaggedFavourite(i)
    /\ threads[i].isArchivedUpto # NullInt
    /\ threads[i].archivedUpToOrder # NullInt

\* C5: in an inbox listing that the limit does not cut, a non-system,
\* non-favourited chat that is archived with marker M is listed iff one of its
\* non-HIDDEN messages has hsOrder > M (so a tie, a lower maximum or no non-HIDDEN
\* message excludes it).
C5_ArchivedIffNewerActivity ==
    (InboxListed /\ call.limit >= Len(threads)) =>
        \A i \in DOMAIN threads :
            (InboxCandidate(i) /\ ArchivedWithMarker(i)) =>
                (Listed(threads[i].id) <=>
                    \E o \in VisibleOrders(threads[i].id) : o > threads[i].archivedUpToOrder)

\* an archived chat whose newest visible message ties the marker while a HIDDEN
\* message lies above it, and the listing leaves it out
C5_Witness ==
    /\ InboxListed /\ call.limit >= Len(threads)
    /\ \E i \in DOMAIN threads :
          /\ InboxCandidate(i) /\ ArchivedWithMarker(i)
          /\ threads[i].archivedUpToOrder \in VisibleOrders(threads[i].id)
          /\ \E j \in DOMAIN msgs :
                /\ msgs[j].room = threads[i].id /\ msgs[j].type = "HIDDEN"
                /\ msgs[j].hsOrder > threads[i].archivedUpToOrder
          /\ ~Listed(threads[i].id)

\* C6 (as stated): in an inbox listing that the limit does not cut, every chat
\* tagged favourite is listed.
C6_FavouriteAlwaysListed ==
    (InboxListed /\ call.limit >= Len(threads)) =>
        \A i \in DOMAIN threads : TaggedFavourite(i) => Listed(threads[i].id)

\* C6 (amended): in an inbox listing that the limit does not cut, every chat
\* tagged favourite that is not a system chat, is selected by the base query
\* (isLowPriority = 0) and is not a skipped WhatsApp community is listed, whatever
\* its archive state, marker and latest hsOrder.
C6_FavouriteListedUnlessSystem ==
    (InboxListed /\ call.limit >= Len(threads)) =>
        \A i \in DOMAIN threads :
            (TaggedFavourite(i) /\ ~HasSystemSuffix(threads[i].id) /\ InboxCandidate(i))
                => Listed(threads[i].id)

\* a favourite chat, archived with a marker that no visible message exceeds, is listed
C6_Witness ==
    /\ InboxListed /\ call.limit >= Len(threads)
    /\ \E i \in DOMAIN threads :
          /\ TaggedFavourite(i) /\ ~HasSystemSuffix(threads[i].id) /\ InboxCandidate(i)
          /\ threads[i].isArchivedUpto # NullInt
          /\ threads[i].archivedUpToOrder # NullInt
          /\ VisibleOrders(threads[i].id) # {}
          /\ \A o \in VisibleOrders(threads[i].id) : o <= threads[i].archivedUpToOrder
          /\ Listed(threads[i].id)

\* C7: no inbox listing holds a chat whose identifier ends with :beeper.local
\* or :beeper.com.
C7_SystemNeverListed ==
    InboxListed => \A k \in DOMAIN ret.value : ~HasSystemSuffix(ret.value[k].chat_id)

\* a system chat tagged favourite is in the store and the inbox listing, not cut
\* by the limit, leaves it out
C7_Witness ==
    /\ InboxListed /\ call.limit >= Len(threads)
    /\ \E i \in DOMAIN threads :
          /\ HasSystemSuffix(threads[i].id) /\ TaggedFavourite(i)
          /\ threads[i].isLowPriority = 0
          /\ ~Listed(threads[i].id)


--------------------------------------------------------------------------
(* Attachments *)

\* the rows and indexes the resolver's lookup can select for a URI
Selected(attachment_uri) ==
    LET u == ParseUri(attachment_uri)
    IN IF ~u.ok THEN {}
       ELSE {[src |-> i, index |-> u.attachment_index] : i \in EventRows(u.message_id)}

\* C9: every attachment URI of a message that get_messages returned resolves,
\* against the unchanged store, to the attachment it was built from: the lookup
\* selects the owning row and the same array index, and the resolver answers
\* neither "Message not found" nor "Attachment index out of range".
C9_UriResolves ==
    (call.op = "get_messages" /\ ~ret.raised) =>
        \A k \in DOMAIN ret.value :
            \A n \in DOMAIN ret.value[k].attachments :
                LET a == ret.value[k].attachments[n]
                IN /\ Selected(a.uri) = {[src |-> ret.value[k].src, index |-> a.index]}
                   /\ \A outcome \in get_media_attachment_content(a.uri, TRUE) :
                         ~outcome.raised => outcome.value.error \notin {ErrNotFound, ErrRange}

MediaCalled == call.op = "get_media_attachment"

\* C10: get_media_attachment never raises; a URI without the prefix, without an
\* index segment or with a non-integer index gives a result with an error entry;
\* every result with an error entry carries the URI of the call under uri.
C10_AlwaysTaggedResult ==
    MediaCalled =>
        /\ ~ret.raised
        /\ ~ParseUri(call.attachment_uri).ok => ret.value.error # ABSENT
        /\ ret.value.error # ABSENT => ret.value.uri = call.attachment_uri

\* a URI whose index is not an integer got an error result that carries it
C10_Witness ==
    /\ MediaCalled
    /\ StartsWith(call.attachment_uri, AttachmentPrefix)
    /\ ~ParseUri(call.attachment_uri).ok
    /\ ~ret.raised
    /\ ret.value.error = ErrIndex
    /\ ret.value.uri = call.attachment_uri


\* the attachment a get_media_attachment call reads, when its URI selects one JSON
\* object of an attachments array that names a URL or a media id and is not an
\* inline data:image URL
CalledAtts ==
    IF ~MediaCalled \/ ~env.root \/ ~env.index THEN {}
    ELSE {msgs[sel.src].payload.atts[sel.index + 1] :
            sel \in {x \in Selected(call.attachment_uri) :
                        /\ msgs[x.src].payload.kind = "obj"
                        /\ msgs[x.src].payload.attsKind = "list"
                        /\ x.index >= 0 /\ x.index < Len(msgs[x.src].payload.atts)}}

AttUrl(att) == Or(Or(Get(att.srcURL, NULL), Get(att.url, NULL)), Get(att.href, NULL))

AttMediaId(att) == Or(Get(att.id, NULL), Get(att.mxc, NULL))

OnDiskAtt(att) ==
    /\ att.kind = "obj"
    /\ Truthy(AttUrl(att)) \/ Truthy(AttMediaId(att))
    /\ ~(Truthy(AttUrl(att)) /\ Lower(AttUrl(att))[1] = "data:")

FoundOnDisk(att) == FilePaths(AttUrl(att), AttMediaId(att)) # {NULL}

AttType(att) == infer_type(Or(AttMime(att), DefaultMime))

\* base64 and no filepath for image and audio, filepath and no base64 otherwise
ShapeByType(att) ==
    IF AttType(att) \in {<<"image">>, <<"audio">>}
    THEN ret.value.base64 # ABSENT /\ ret.value.filepath = ABSENT
    ELSE ret.value.filepath # ABSENT /\ ret.value.base64 = ABSENT

\* the "Media file not found on disk" descriptor with type, MIME type, URL and URI
NotOnDiskDescriptor(att) ==
    /\ ret.value.error = ErrNotOnDisk
    /\ ret.value.type = AttType(att)
    /\ ret.value.mime_type = Or(AttMime(att), DefaultMime)
    /\ ret.value.attachment_url = AttUrl(att)
    /\ ret.value.uri = call.attachment_uri

\* C11 (as stated): when the file of the attachment is found on disk the result
\* has the shape of its type (image, audio: base64 and no filepath; video, file:
\* filepath and no base64); when none is found the result is the not-on-disk
\* descriptor.
C11_ShapeOnlyByType ==
    \A att \in CalledAtts :
        OnDiskAtt(att) =>
            IF FoundOnDisk(att) THEN ShapeByType(att) ELSE NotOnDiskDescriptor(att)

\* C11 (amended): when the file is found on disk the result either has the shape
\* of its type or, for an image or audio file that cannot be processed, is the
\* error "Failed to process media file" with the URI and neither base64 nor
\* filepath; when none is found the result is the not-on-disk descriptor.
C11_ShapeByTypeUnlessUnprocessable ==
    \A att \in CalledAtts :
        OnDiskAtt(att) =>
            IF FoundOnDisk(att)
            THEN IF ret.value.error = ABSENT THEN ShapeByType(att)
                 ELSE /\ ret.value.error = ErrProcess
                      /\ ret.value.uri = call.attachment_uri
                      /\ AttType(att) \in {<<"image">>, <<"audio">>}
                      /\ ret.value.base64 = ABSENT /\ ret.value.filepath = ABSENT
            ELSE NotOnDiskDescriptor(att)

\* an audio attachment whose file is on disk came back inline
C11_Witness ==
    \E att \in CalledAtts :
        /\ OnDiskAtt(att) /\ FoundOnDisk(att)
        /\ AttType(att) = <<"audio">>
        /\ ret.value.error = ABSENT
        /\ ret.value.base64 # ABSENT /\ ret.value.filepath = ABSENT


--------------------------------------------------------------------------
(* Failures *)

ListOps ==
    {"list_chats", "get_messages", "search_message_contents", "search_chat_names",
     "get_person_messages"}

\* C12: a call of one of the five list tools hands a list back and throws
\* nothing; when the archive root or index.db is missing, or the query raised, the
\* list is empty.
C12_ListToolsNeverThrow ==
    call.op \in ListOps =>
        /\ ~ret.thrown
        /\ DOMAIN ret.value = 1..Len(ret.value)
        /\ (StoreMissing \/ ret.raised) => ret.value = <<>>

\* the store is there, the query of a list tool raised, and the tool handed back
\* the empty list
C12_Witness ==
    /\ call.op \in ListOps
    /\ ~StoreMissing
    /\ ret.raised /\ ~ret.thrown
    /\ ret.value = <<>>

\* a stored message with a payload that is not valid JSON, with a JSON null text,
\* or with no sender
Malformed(i) ==
    \/ msgs[i].payload.kind \in {"plain", "bad"}
    \/ msgs[i].payload.kind = "obj" /\ NULL \in {msgs[i].payload.text, msgs[i].payload.body}
    \/ msgs[i].sender = NULL

\* C13: with the store in place, fetch_messages, search_messages and
\* get_messages_by_person do not fail on an archive that holds malformed
\* records, and fetch_messages (limit not cutting) still returns every well-formed
\* qualifying message of the chat.
C13_MalformedRecordAbsorbed ==
    (call.op \in {"get_messages", "search_message_contents", "get_person_messages"}
        /\ ~StoreMissing) =>
        /\ ~ret.raised
        /\ (call.op = "get_messages" /\ call.limit >= Len(msgs)) =>
              \A i \in Returnable(call.chat_id) : ~Malformed(i) => i \in Srcs(ret.value)


--------------------------------------------------------------------------
(* Connections *)

\* C14: an operation that runs on a store in place (for attachment resolution:
\* with a well-formed URI) opens exactly one connection to index.db and has none
\* open when it returns, whether it failed or not; with index.db missing it opens
\* none.
C14_OneConnectionClosed ==
    (call.op \in ListOps \/ MediaCalled) =>
        /\ ret.open = 0
        /\ ~env.index => ret.opened = 0
        /\ (~StoreMissing /\ (MediaCalled => ParseUri(call.attachment_uri).ok))
              => ret.opened = 1


--------------------------------------------------------------------------
(* No write path *)

\* C15: no operation mutates the archive: a step that is a call of one of the six
\* tools, whether it succeeds or fails, leaves the primary store, the platform
\* stores and the media directory as they were.
C15_ArchiveNeverMutated ==
    [][call'.op \in ListOps \cup {"get_media_attachment"} => UNCHANGED storeVars]_vars

\* a tool has answered from a store that holds messages, or has failed on it
C15_Witness ==
    /\ msgs # <<>>
    /\ \/ call.op \in ListOps /\ ~ret.raised /\ ret.value # <<>>
       \/ MediaCalled /\ ret.value.error # ABSENT


--------------------------------------------------------------------------
(* Message text *)

\* C16: extract_message_text never yields null: for every stored payload and
\* declared type, JSON-object payloads with an absent or JSON null body/text
\* included, its result is a string.
C16_TextNeverNull ==
    \A i \in DOMAIN msgs : extract_message_text(msgs[i].payload, msgs[i].type) # NULL


--------------------------------------------------------------------------
(* Date bounds *)

\* the stored messages of chat_id within the bounds, a bound that is not an
\* instant setting no limit
WithinBounds(chat_id, before, after) ==
    {i \in Returnable(chat_id) :
        /\ before.kind = "iso" => msgs[i].ts < before.ms
        /\ after.kind = "iso" => msgs[i].ts > after.ms}

Unbound(date) == IF date.kind = "iso" THEN date ELSE NoDate

\* C17: fetch_messages does not fail on any bound; with a valid before it returns
\* only messages strictly older than the bound (in milliseconds) and with a valid
\* after only messages strictly newer; a bound that does not parse changes nothing:
\* the result is the min(limit, .) newest messages within the valid bounds, as for
\* the same call without the unparsable bound.
C17_DateBoundsStrict ==
    call.op = "get_messages" =>
        LET out == ret.value
            q == WithinBounds(call.chat_id, Unbound(call.before), Unbound(call.after))
        IN /\ ~ret.raised
           /\ Srcs(out) \subseteq q
           /\ NoRepeat(out)
           /\ NewestFirst(out)
           /\ Len(out) = Min(call.limit, Cardinality(q))
           /\ \A i \in q \ Srcs(out) : \A k \in DOMAIN out : msgs[i].ts <= msgs[out[k].src].ts
           /\ ret \in ListTool(fetch_messages(call.chat_id, call.limit,
                                              Unbound(call.before), Unbound(call.after)))

\* a fetch between two valid bounds, or with one valid and one unparsable bound,
\* on a chat with a message exactly at a bound and one within
C17_Witness ==
    /\ call.op = "get_messages"
    /\ call.limit >= 1
    /\ \/ call.before.kind = "iso" /\ call.after = BadDate
       \/ call.after.kind = "iso" /\ call.before = BadDate
    /\ \E i \in Returnable(call.chat_id) : msgs[i].ts \in {call.before.ms, call.after.ms}
    /\ ret.value # <<>>


--------------------------------------------------------------------------
(* Recent messages *)

\* the text of a preview: at most 100 characters as they are, more cut to the
\* first 100 followed by "..."
Preview(text) ==
    IF Len(text) > 100 THEN SubSeq(text, 1, 100) \o <<"...">> ELSE text

\* C18: every chat fetch_chats returns carries as recent_messages its
\* min(recent_messages_limit, .) newest messages of returnable type with a payload,
\* oldest first, each text cut to its preview; none with recent_messages_limit 0.
C18_RecentMessagesPreview ==
    (call.op = "list_chats" /\ ~ret.raised) =>
        \A c \in DOMAIN ret.value :
            LET out == ret.value[c].recent_messages
                q == Returnable(ret.value[c].chat_id)
            IN /\ Len(out) = Min(call.recent_messages_limit, Cardinality(q))
               /\ Srcs(out) \subseteq q
               /\ NoRepeat(out)
               /\ OldestFirst(out)
               /\ \A i \in q \ Srcs(out) :
                     \A k \in DOMAIN out : msgs[i].ts <= msgs[out[k].src].ts
               /\ \A k \in DOMAIN out :
                     out[k].text = Preview(extract_message_text(msgs[out[k].src].payload,
                                                                msgs[out[k].src].type))

\* a chat listed with fewer recent messages than it has returnable ones, one of
\* them with a text that was cut
C18_Witness ==
    /\ call.op = "list_chats"
    /\ call.recent_messages_limit > 0
    /\ \E c \in DOMAIN ret.value :
          LET out == ret.value[c].recent_messages
          IN /\ Cardinality(Returnable(ret.value[c].chat_id)) > Len(out)
             /\ \E k \in DOMAIN out :
                   /\ Len(msgs[out[k].src].payload.text) > 100
                   /\ Len(out[k].text) = 101


--------------------------------------------------------------------------
(* Attachment descriptors *)

\* the MIME type of an array entry: mimeType, else mimetype, else the default
MimeOf(att) ==
    IF Truthy(att.mimeType) THEN att.mimeType
    ELSE IF Truthy(att.mimetype) THEN att.mimetype
    ELSE <<"application/", "octet-stream">>

\* image, audio or video for a MIME type that starts with that word and "/"
TypeOfMime(mime) ==
    CASE mime[1] = "image/" -> <<"image">>
      [] mime[1] = "audio/" -> <<"audio">>
      [] mime[1] = "video/" -> <<"video">>
      [] OTHER -> <<"file">>

\* the id a returned message gives to extract_message_attachments
MessageId(i) ==
    IF Truthy(msgs[i].eventID) THEN msgs[i].eventID ELSE <<"msg_">> \o IntStr(msgs[i].ts)

\* C19: the descriptors of a returned message whose payload holds an attachments
\* array are, in array order, one per object entry of the array; the one of the
\* entry at zero-based position i has the URI beeper://attachment/{message_id}/{i},
\* the entry's MIME type (application/octet-stream by default) and the type that
\* MIME type starts with, else file.
C19_DescriptorsKeepPositions ==
    (call.op = "get_messages" /\ ~ret.raised) =>
        \A m \in DOMAIN ret.value :
            LET src == ret.value[m].src
                p == msgs[src].payload
                out == ret.value[m].attachments
                objs == {i \in DOMAIN p.atts : p.atts[i].kind = "obj"}
                \* the zero-based array position of the k-th object entry
                pos(k) == CHOOSE i \in objs : Cardinality({j \in objs : j <= i}) = k
            IN (p.kind = "obj" /\ p.attsKind = "list") =>
                  /\ Len(out) = Cardinality(objs)
                  /\ \A k \in DOMAIN out :
                        /\ out[k].uri = <<"beeper://attachment/">> \o MessageId(src)
                                           \o <<"/">> \o IntStr(pos(k) - 1)
                        /\ out[k].mime_type = MimeOf(p.atts[pos(k)])
                        /\ out[k].type = TypeOfMime(MimeOf(p.atts[pos(k)]))

\* a returned message whose array has an entry that is not an object before an
\* object entry, and one whose entry has no MIME type
C19_Witness ==
    /\ call.op = "get_messages"
    /\ \E m \in DOMAIN ret.value :
          LET p == msgs[ret.value[m].src].payload
          IN /\ Len(p.atts) = 2 /\ p.atts[1].kind # "obj" /\ p.atts[2].kind = "obj"
             /\ Len(ret.value[m].attachments) = 1
    /\ \E m \in DOMAIN ret.value :
          \E k \in DOMAIN ret.value[m].attachments :
              ret.value[m].attachments[k].type = <<"file">>


--------------------------------------------------------------------------
(* Text extraction *)

\* the first of the fields that is present in the payload, else otherwise
FirstPresent(fields, otherwise) ==
    IF fields[1] # ABSENT THEN fields[1]
    ELSE IF fields[2] # ABSENT THEN fields[2]
    ELSE otherwise

\* C20: on a JSON-object payload extract_message_text gives, for TEXT, body if
\* present, else text, else the empty string; for IMAGE and VIDEO text, else body,
\* else [Image] / [Video]; for AUDIO [Audio: url] or [Audio message]; for FILE a
\* string that starts with [File:; for LOCATION, CONTACT and STICKER their
\* bracketed placeholders; for any other type body, else text, else [TYPE].  A
\* plain payload of type TEXT comes back as it is.
C20_PerTypeRule ==
    call.op = "extract_message_text" =>
        LET p == call.message_input
            type == CASE call.message_type \in {"", "text"} -> "TEXT"
                      [] OTHER -> call.message_type
            out == ret.value
        IN /\ p.kind = "obj" =>
                CASE type = "TEXT" -> out = FirstPresent(<<p.body, p.text>>, <<>>)
                  [] type = "IMAGE" -> out = FirstPresent(<<p.text, p.body>>, <<"[", "Image", "]">>)
                  [] type = "VIDEO" -> out = FirstPresent(<<p.text, p.body>>, <<"[", "Video", "]">>)
                  [] type = "AUDIO" ->
                       out = IF p.url \in {ABSENT, NULL, <<>>} THEN <<"[Audio message]">>
                             ELSE <<"[Audio: ">> \o p.url \o <<"]">>
                  [] type = "FILE" -> out[1] = "[File: " /\ out[Len(out)] = "]"
                  [] type = "LOCATION" ->
                       out = IF p.geo_uri = ABSENT THEN <<"[Location]">>
                             ELSE <<"[Location: ">> \o p.geo_uri \o <<"]">>
                  [] type = "CONTACT" ->
                       out = <<"[Contact: ">>
                               \o (IF p.display_name = ABSENT THEN <<"Contact">>
                                   ELSE p.display_name) \o <<"]">>
                  [] type = "STICKER" ->
                       out = IF p.url \in {ABSENT, NULL, <<>>} THEN <<"[Sticker]">>
                             ELSE <<"[Sticker: ">> \o p.url \o <<"]">>
                  [] OTHER -> out = FirstPresent(<<p.body, p.text>>, <<"[", type, "]">>)
           /\ (p.kind = "plain" /\ type = "TEXT") => out = p.raw

\* TEXT on an object payload that has both a body and a different text
C20_Witness ==
    /\ call.op = "extract_message_text"
    /\ call.message_type = "TEXT"
    /\ call.message_input.kind = "obj"
    /\ call.message_input.body = <<"b">>
    /\ call.message_input.text = <<"t">>
    /\ ret.value = <<"b">>


--------------------------------------------------------------------------
(* Attachment extraction failures *)

\* C21: extract_message_attachments returns a list and raises for no payload; an
\* empty payload, a payload that is not valid JSON, and a payload whose attachments
\* field is absent, empty or not a list give the empty list.
C21_AttachmentsNeverRaise ==
    call.op = "extract_message_attachments" =>
        LET p == call.message_json
        IN /\ ~ret.raised
           /\ DOMAIN ret.value = 1..Len(ret.value)
           /\ (p.kind \in {"null", "plain", "bad"} \/ p.attsKind # "list" \/ p.atts = <<>>)
                 => ret.value = <<>>


\* C22: on a non-empty payload that does not start with { or [, or that starts
\* with one and is not valid JSON, extract_message_text gives the payload as it is
\* for the declared type TEXT and the placeholder [TYPE] for any other declared
\* type; on an empty payload it gives the empty string.
C22_PlainVerbatimOrPlaceholder ==
    call.op = "extract_message_text" =>
        LET p == call.message_input
            type == CASE call.message_type \in {"", "text"} -> "TEXT"
                      [] OTHER -> call.message_type
        IN /\ (p.kind = "null" \/ p.raw = <<>>) => ret.value = <<>>
           /\ (p.kind \in {"plain", "scalar", "bad"} /\ p.raw # <<>>) =>
                 ret.value = IF type = "TEXT" THEN p.raw ELSE <<"[", type, "]">>


--------------------------------------------------------------------------
(* Byte source of an attachment *)

\* the file a result was made from: the path it hands over, or the path its
\* base64 content was read from
UsedPath(result) ==
    IF result.filepath # ABSENT THEN result.filepath
    ELSE IF result.base64 # ABSENT /\ result.base64[1] \in {"jpeg:", "bytes:"}
    THEN Tail(result.base64)
    ELSE NULL

InlineImage(url) ==
    /\ Truthy(url)
    /\ Len(url) >= 2 /\ url[1] = "data:" /\ url[2] = "image/"
    /\ \E k \in DOMAIN url : url[k] = ";base64,"

\* the path a file:// URL or a bare path names
DirectPath(url) == IF url[1] = "file://" THEN Tail(url) ELSE url

\* the name the media directory is searched for: the last segment of the URL
\* without its query, else the media id
SearchName(att) ==
    LET fromUrl == IF Truthy(AttUrl(att)) THEN BeforeQuery(LastSegment(AttUrl(att))) ELSE <<>>
    IN IF fromUrl # <<>> THEN fromUrl ELSE AttMediaId(att)

MediaFiles == {f.path : f \in {g \in env.files : StartsWith(g.path, MediaDir)}}

\* C23: the byte source of a resolved attachment is, in this order: the content of
\* an inline data:image/...;base64, URL; else the file a file:// URL or bare path
\* names, when it exists; else a file of the media directory named exactly as the
\* last URL segment (else the media id); else one whose name contains it; with
\* none of these nothing is read.
C23_SourcePriority ==
    \A att \in CalledAtts :
        (att.kind = "obj" /\ (Truthy(AttUrl(att)) \/ Truthy(AttMediaId(att)))) =>
            LET url == AttUrl(att)
                exact == {p \in MediaFiles : LastSegment(p) = SearchName(att)}
                partly == {p \in MediaFiles : Contains(LastSegment(p), SearchName(att))}
                used == UsedPath(ret.value)
            IN IF InlineImage(url)
               THEN /\ ret.value.error = ABSENT
                    /\ ret.value.base64 = <<"QUJD">>
                    /\ used = NULL
               ELSE IF Truthy(url) /\ (\E f \in env.files : f.path = DirectPath(url))
               THEN used = DirectPath(url)
               ELSE IF exact # {} THEN used \in exact
               ELSE IF partly # {} THEN used \in partly
               ELSE used = NULL /\ ret.value.error = ErrNotOnDisk

\* the media directory was searched and the file named exactly as sought was
\* taken while another file whose name contains that name was also there
C23_Witness ==
    \E att \in CalledAtts :
        /\ ~InlineImage(AttUrl(att))
        /\ UsedPath(ret.value) \in MediaFiles
        /\ LastSegment(UsedPath(ret.value)) = SearchName(att)
        /\ \E p \in MediaFiles : p # UsedPath(ret.value) /\ Contains(LastSegment(p), SearchName(att))


--------------------------------------------------------------------------
(* Contact names *)

\* the participants of the thread of room_id, none when it has no thread row
ParticipantsOf(room_id) ==
    IF ThreadRows(room_id) = {} THEN <<>>
    ELSE threads[CHOOSE i \in ThreadRows(room_id) : TRUE].participants

\* C24: get_contact_name does not raise; it gives Me for a message sent by the
\* user, else the full name of the first participant of the thread whose id is
\* sender_id when that participant has a full name, else sender_id.
C24_ContactNameOrSender ==
    call.op = "get_contact_name" =>
        LET ps == ParticipantsOf(call.room_id)
            hit == FirstOf({k \in DOMAIN ps : ps[k].id = call.sender_id})
        IN /\ ~ret.raised
           /\ ret.value = IF call.is_from_me THEN <<"Me">>
                          ELSE IF hit # 0 /\ ps[hit].fullName \notin {ABSENT, NULL}
                          THEN ps[hit].fullName
                          ELSE call.sender_id


--------------------------------------------------------------------------
(* Auxiliary connections *)

\* C25: when a chat-name resolution or a community check returns, no connection
\* to a platform store is open, whether the store gave a row, no row or an error,
\* and no store was connected to more than once.
C25_AuxConnectionsClosed ==
    call.op \in {"get_chat_name", "check_community"} =>
        /\ ret.open = 0
        /\ ret.opened <= Len(env.platforms)


--------------------------------------------------------------------------
(* The match and its context *)

\* C26: in a search with include_context, a result whose context window holds at
\* least one message lists the matched message itself.
C26_MatchInOwnContext ==
    (Searched /\ call.include_context) =>
        \A k \in DOMAIN ret.value :
            ReturnableAround(ret.value[k].match.src) # {} =>
                ret.value[k].match.src \in Srcs(ret.value[k].messages)


\* C27: the sender_name a search without context reports for a match is the one
\* fetch_messages reports for the same stored message: Me exactly when the message
\* is flagged as sent by the user, else the resolved contact name.
C27_SameSenderAsFetch ==
    (Searched /\ ~call.include_context) =>
        \A k \in DOMAIN ret.value :
            LET i == ret.value[k].match.src
            IN /\ ret.value[k].match.sender_name
                     = build_message_from_row(RowView(i), msgs[i].room, i).sender_name
               /\ ret.value[k].match.sender_name = <<"Me">> <=> msgs[i].isMe


--------------------------------------------------------------------------
(* Labels *)

ListedChats == call.op = "list_chats" /\ ~ret.raised

\* the chat ids of a returned chat list
ChatIds(list) == {list[k].chat_id : k \in DOMAIN list}

\* C28: with the label unread, every chat returned is a thread marked unread and
\* carries unread = TRUE.
C28_UnreadOnly ==
    (ListedChats /\ call.label = "unread") =>
        \A k \in DOMAIN ret.value :
            /\ ret.value[k].unread
            /\ \E i \in DOMAIN threads :
                  /\ threads[i].id = ret.value[k].chat_id
                  /\ threads[i].isMarkedUnread \notin {NullInt, 0}

\* the threads that are archived, not tagged favourite (no tags included) and,
\* unless low-priority chats are asked for, not low priority
Archived(include_low_priority) ==
    {i \in DOMAIN threads :
        /\ threads[i].isArchivedUpto # NullInt
        /\ ~(threads[i].tags # NULL /\ Contains(threads[i].tags, <<"favourite">>))
        /\ ~include_low_priority => threads[i].isLowPriority # 1}

\* C29: with the label archive, the chats returned are min(limit, .) of exactly the
\* threads that have an archive flag, are not tagged favourite (threads without a
\* tags field included) and, unless include_low_priority, are not low priority.
C29_ArchiveExactly ==
    (ListedChats /\ call.label = "archive") =>
        LET q == {threads[i].id : i \in Archived(call.include_low_priority)}
        IN /\ ChatIds(ret.value) \subseteq q
           /\ Len(ret.value) = Min(call.limit, Cardinality(q))


--------------------------------------------------------------------------
(* Chats by name *)

\* COALESCE(last_message_time, lastOpenTime, 0) of a thread
LatestActivity(i) ==
    IF last_message_time(threads[i].id) # NullInt THEN last_message_time(threads[i].id)
    ELSE IF threads[i].lastOpenTime # NullInt THEN threads[i].lastOpenTime
    ELSE 0

\* the threads under label whose resolved name contains query, letter case aside
NameMatches(query, label) ==
    {i \in DOMAIN threads :
        /\ ChatConditions(i, label, FALSE)
        /\ Contains(Lower(get_chat_name(threads[i].title, threads[i].id)), Lower(query))}

\* C30: search_chats_by_name returns the min(limit, .) chats of latest activity
\* among all chats under label whose name contains query, latest first; if it
\* returns fewer than limit chats, no other chat under the label has a matching name.
C30_FirstMatchingChats ==
    (call.op = "search_chat_names" /\ ~ret.raised) =>
        LET q == NameMatches(call.query, call.label)
            out == {i \in DOMAIN threads : threads[i].id \in ChatIds(ret.value)}
        IN /\ out \subseteq q
           /\ Len(ret.value) = Min(call.limit, Cardinality(q))
           /\ \A i \in q \ out : \A j \in out : LatestActivity(i) <= LatestActivity(j)

====
